---- MODULE Spec2Model ----
(***************************************************************************)
(* A model of src/app_chat.py: the session store, the chat and settings    *)
(* routes, and the start of the process.                                   *)
(*                                                                         *)
(* A Python str is a sequence of one-character strings; a Python list is a *)
(* sequence; a dict is a function whose domain is its set of keys.  None   *)
(* is the record PyNone.  The clock counts seconds from                    *)
(* 2026-01-01T00:00:00 local time and stays inside January 2026.           *)
(***************************************************************************)
EXTENDS Integers, Sequences, FiniteSets, TLC

VARIABLES
    sessions_db,   \* the shelve file SESSION_DB: session id -> stored dict
    now,           \* datetime.now(), in seconds
    session,       \* the client's Flask session (cookie): a dict
    llm,           \* the global model handle: "None" or "Llama"
    PROMPT_TEMPLATE,   \* the global prompt template
    SYSTEM_PROMPT,     \* the global system prompt
    pc,            \* the redirect the client has still to follow, or "idle"
    req,           \* the request the client issued last (not the redirects it followed)
    mon,           \* observer of the sequence /save_session, /new_chat, /session/K
    call,          \* the store function or the route handler that ran last
    ret,           \* what that call returned (StoreSpec), the HTTP status (Spec)
    raised,        \* the exception it raised, or "none"
    before,        \* the store function called before that one
    prev,          \* sessions_db as it was before the last call
    ncalls,        \* calls (StoreSpec) or client requests (Spec) so far
    boot,          \* the process from its start: its stage, its environment, load_model's trace
    llm_input,     \* the prompt the last handler called the model with, or PyNone
    cfg,           \* observer: the template and the system prompt the settings routes took last
    threads,       \* the request threads of the threaded server: each one's position and locals
    sys_stdout,    \* the process-global sys.stdout: "stdout" or a thread's StringIO
    hub_py         \* the text of ctransformers/hub.py on disk, or PyNone

vars == <<sessions_db, now, session, llm, PROMPT_TEMPLATE, SYSTEM_PROMPT, pc, req, mon,
          call, ret, raised, before, prev, ncalls, boot, llm_input, cfg,
          threads, sys_stdout, hub_py>>

(***************************************************************************)
(* Characters and strings.                                                 *)
(***************************************************************************)

\* The printable ASCII characters in code point order, from 32 (space) to 126
\* (code point 96 is spelled out: a TLA+ string cannot hold that character).
Ascii ==
    <<" ", "!", "\"", "#", "$", "%", "&", "'", "(", ")", "*", "+", ",", "-", ".", "/",
      "0", "1", "2", "3", "4", "5", "6", "7", "8", "9", ":", ";", "<", "=", ">", "?",
      "@", "A", "B", "C", "D", "E", "F", "G", "H", "I", "J", "K", "L", "M", "N", "O",
      "P", "Q", "R", "S", "T", "U", "V", "W", "X", "Y", "Z", "[", "\\", "]", "^", "_",
      "(backtick)", "a", "b", "c", "d", "e", "f", "g", "h", "i", "j", "k", "l", "m", "n", "o",
      "p", "q", "r", "s", "t", "u", "v", "w", "x", "y", "z", "{", "|", "}", "~">>

\* ord(c) for the characters of the model.
Ord(c) ==
    IF c = "\n" THEN 10
    ELSE IF c = "\t" THEN 9
    ELSE 31 + (CHOOSE i \in 1..Len(Ascii) : Ascii[i] = c)

\* What str.strip() and str.split() take for white space.
Whitespace == {" ", "\n", "\t", "\r"}

Digits == <<"0", "1", "2", "3", "4", "5", "6", "7", "8", "9">>

Uppercase == {Ascii[i] : i \in 34..59}

Lowercase == {Ascii[i] : i \in 66..91}

IsDigit(c) == \E i \in 1..10 : Digits[i] = c

DigitVal(c) == (CHOOSE i \in 1..10 : Digits[i] = c) - 1

\* A number below 100 printed on two digits, as %d, %H, %M and %S print it.
Pad2(n) == <<Digits[(n \div 10) + 1], Digits[(n % 10) + 1]>>

\* s1 < s2 as Python compares two str: by code point, a proper prefix first.
RECURSIVE StrLess(_, _)
StrLess(s1, s2) ==
    IF s2 = <<>> THEN FALSE
    ELSE IF s1 = <<>> THEN TRUE
    ELSE IF Head(s1) = Head(s2) THEN StrLess(Tail(s1), Tail(s2))
    ELSE Ord(Head(s1)) < Ord(Head(s2))

\* Whether old occurs in s at position i.
OccursAt(s, old, i) ==
    /\ i + Len(old) - 1 <= Len(s)
    /\ \A j \in 1..Len(old) : s[i + j - 1] = old[j]

\* s from position i on, with every occurrence of old replaced, left to
\* right: the text up to the first occurrence, new, and the rest likewise.
RECURSIVE ReplaceFrom(_, _, _, _)
ReplaceFrom(s, old, new, i) ==
    LET hits == {j \in i..Len(s) : OccursAt(s, old, j)}
    IN  IF hits = {} THEN SubSeq(s, i, Len(s))
        ELSE LET first == CHOOSE j \in hits : \A k \in hits : j <= k
             IN  SubSeq(s, i, first - 1) \o new
                     \o ReplaceFrom(s, old, new, first + Len(old))

\* s.replace(old, new) for a non-empty old: every occurrence, left to right.
StrReplace(s, old, new) == ReplaceFrom(s, old, new, 1)

RECURSIVE LStrip(_, _)
LStrip(s, chars) ==
    IF s # <<>> /\ Head(s) \in chars THEN LStrip(Tail(s), chars) ELSE s

RECURSIVE RStrip(_, _)
RStrip(s, chars) ==
    IF s # <<>> /\ s[Len(s)] \in chars THEN RStrip(SubSeq(s, 1, Len(s) - 1), chars) ELSE s

\* s.strip(chars)
StrStripChars(s, chars) == RStrip(LStrip(s, chars), chars)

\* s.strip()
StrStrip(s) == StrStripChars(s, Whitespace)

\* s[:n]
Slice(s, n) == SubSeq(s, 1, IF n < Len(s) THEN n ELSE Len(s))

RECURSIVE Words(_, _)
Words(s, cur) ==
    IF s = <<>> THEN (IF cur = <<>> THEN <<>> ELSE <<cur>>)
    ELSE IF Head(s) \in Whitespace
         THEN (IF cur = <<>> THEN Words(Tail(s), <<>>)
               ELSE <<cur>> \o Words(Tail(s), <<>>))
    ELSE Words(Tail(s), Append(cur, Head(s)))

\* s.split(): the words between runs of white space.
StrSplit(s) == Words(s, <<>>)

\* sep.join(parts)
RECURSIVE StrJoin(_, _)
StrJoin(sep, parts) ==
    IF parts = <<>> THEN <<>>
    ELSE IF Len(parts) = 1 THEN parts[1]
    ELSE parts[1] \o sep \o StrJoin(sep, Tail(parts))

\* The characters of s that are in keep, in order.
RECURSIVE Filter(_, _)
Filter(s, keep) ==
    IF s = <<>> THEN <<>>
    ELSE IF Head(s) \in keep THEN <<Head(s)>> \o Filter(Tail(s), keep)
    ELSE Filter(Tail(s), keep)

\* werkzeug's _filename_ascii_strip_re keeps exactly [A-Za-z0-9_.-].
FilenameChars == Uppercase \cup Lowercase \cup {Digits[i] : i \in 1..10} \cup {"_", ".", "-"}

\* werkzeug.utils.secure_filename on an ASCII str under POSIX: the path
\* separator becomes a space, the words are joined by "_", every character
\* outside [A-Za-z0-9_.-] is dropped, leading and trailing "." and "_" go.
secure_filename(filename) ==
    StrStripChars(
        Filter(StrJoin(<<"_">>, StrSplit(StrReplace(filename, <<"/">>, <<" ">>))),
               FilenameChars),
        {".", "_"})

(***************************************************************************)
(* The clock and its two printed forms.                                    *)
(***************************************************************************)

SecondsPerDay == 24 * 60 * 60

DayOfMonth(t) == 1 + (t \div SecondsPerDay)

Hour(t) == (t % SecondsPerDay) \div 3600

Minute(t) == (t % 3600) \div 60

Second(t) == t % 60

\* datetime.now().strftime('%Y%m%d-%H%M')
strftime(t) ==
    <<"2", "0", "2", "6", "0", "1">> \o Pad2(DayOfMonth(t)) \o <<"-">>
        \o Pad2(Hour(t)) \o Pad2(Minute(t))

\* datetime.now().isoformat(), the microseconds being 0
isoformat(t) ==
    <<"2", "0", "2", "6", "-", "0", "1", "-">> \o Pad2(DayOfMonth(t)) \o <<"T">>
        \o Pad2(Hour(t)) \o <<":">> \o Pad2(Minute(t)) \o <<":">> \o Pad2(Second(t))

\* The shape YYYY-MM-DDTHH:MM:SS with fields in range.
IsIsoString(s) ==
    /\ Len(s) = 19
    /\ \A i \in {1, 2, 3, 4, 6, 7, 9, 10, 12, 13, 15, 16, 18, 19} : IsDigit(s[i])
    /\ s[5] = "-" /\ s[8] = "-" /\ s[11] = "T" /\ s[14] = ":" /\ s[17] = ":"
    /\ 10 * DigitVal(s[6]) + DigitVal(s[7]) \in 1..12
    /\ 10 * DigitVal(s[9]) + DigitVal(s[10]) \in 1..31
    /\ 10 * DigitVal(s[12]) + DigitVal(s[13]) \in 0..23
    /\ 10 * DigitVal(s[15]) + DigitVal(s[16]) \in 0..59
    /\ 10 * DigitVal(s[18]) + DigitVal(s[19]) \in 0..59

\* datetime.fromisoformat(s).timestamp(): ValueError for a str that is no
\* ISO date, else the seconds of a date of January 2026.  The one shape
\* taken for an ISO date is the one isoformat prints.
fromisoformat(s) ==
    IF IsIsoString(s)
    THEN [raised |-> "none",
          value |-> (10 * DigitVal(s[9]) + DigitVal(s[10]) - 1) * SecondsPerDay
                    + (10 * DigitVal(s[12]) + DigitVal(s[13])) * 3600
                    + (10 * DigitVal(s[15]) + DigitVal(s[16])) * 60
                    + 10 * DigitVal(s[18]) + DigitVal(s[19])]
    ELSE [raised |-> "ValueError", value |-> 0]

(***************************************************************************)
(* Python values, dict and shelf.                                          *)
(***************************************************************************)

PyNone == [tag |-> "None"]

PyStr(s) == [tag |-> "str", v |-> s]

PyInt(n) == [tag |-> "int", v |-> n]

\* bool(x) for x None or a str
Truthy(x) == x.tag = "str" /\ x.v # <<>>

EmptyDict == [f \in {} |-> <<>>]

\* d.get(key, default)
DictGet(d, key, default) == IF key \in DOMAIN d THEN d[key] ELSE default

\* d[key] = value
DictSet(d, key, value) == [j \in DOMAIN d \cup {key} |-> IF j = key THEN value ELSE d[j]]

\* d.pop(key, None)
DictPop(d, key) == [j \in DOMAIN d \ {key} |-> d[j]]

\* del d[key]: KeyError when key is absent
DictDel(d, key) ==
    IF key \in DOMAIN d
    THEN [db |-> [j \in DOMAIN d \ {key} |-> d[j]], raised |-> "none"]
    ELSE [db |-> d, raised |-> "KeyError"]

(***************************************************************************)
(* The session store: src/app_chat.py, lines 57 to 106.  Each function     *)
(* opens the shelf, works on it and closes it; its result here is the      *)
(* shelf it leaves (db), what it returns (ret) and what it raises (raised).*)
(***************************************************************************)

\* max(S) of a non-empty set of str
StrMax(S) == CHOOSE x \in S : \A y \in S : y = x \/ StrLess(y, x)

\* min(S) of a non-empty set of str
StrMin(S) == CHOOSE x \in S : \A y \in S : y = x \/ StrLess(x, y)

\* sorted(S, reverse=True)
RECURSIVE sorted_reverse(_)
sorted_reverse(S) ==
    IF S = {} THEN <<>>
    ELSE LET m == StrMax(S) IN <<m>> \o sorted_reverse(S \ {m})

\* sorted(S)
RECURSIVE sorted(_)
sorted(S) ==
    IF S = {} THEN <<>>
    ELSE LET m == StrMin(S) IN <<m>> \o sorted(S \ {m})

get_all_sessions_ascending(db) ==
    [db |-> db, ret |-> sorted(DOMAIN db), raised |-> "none"]

get_all_sessions(db) ==
    [db |-> db, ret |-> sorted_reverse(DOMAIN db), raised |-> "none"]

save_session_no_overwrite(db, session_id, history, timings, t) ==
    [db |-> IF session_id \in DOMAIN db THEN db
            ELSE DictSet(db, session_id,
                         [history |-> history, timings |-> timings,
                          timestamp |-> isoformat(t)]),
     ret |-> <<>>, raised |-> "none"]

save_session_clobber(db, session_id, history, timings, t) ==
    [db |-> [j \in {session_id} |->
                [history |-> history, timings |-> timings, timestamp |-> isoformat(t)]],
     ret |-> <<>>, raised |-> "none"]

save_session(db, session_id, history, timings, t) ==
    [db |-> DictSet(db, session_id,
                    [history |-> history, timings |-> timings,
                     timestamp |-> isoformat(t)]),
     ret |-> <<>>, raised |-> "none"]

load_session_subscript(db, session_id) ==
    IF session_id \in DOMAIN db
    THEN [db |-> db,
          ret |-> <<DictGet(db[session_id], "history", <<>>),
                    DictGet(db[session_id], "timings", <<>>)>>,
          raised |-> "none"]
    ELSE [db |-> db, ret |-> <<>>, raised |-> "KeyError"]

load_session(db, session_id) ==
    LET session_data == DictGet(db, session_id, EmptyDict)
    IN  [db |-> db,
         ret |-> <<DictGet(session_data, "history", <<>>),
                   DictGet(session_data, "timings", <<>>)>>,
         raised |-> "none"]

delete_session_unguarded(db, session_id) ==
    LET r == DictDel(db, session_id)
    IN  [db |-> r.db, ret |-> <<>>, raised |-> r.raised]

delete_session(db, session_id) ==
    IF session_id \in DOMAIN db
    THEN LET r == DictDel(db, session_id)
         IN  [db |-> r.db, ret |-> <<>>, raised |-> r.raised]
    ELSE [db |-> db, ret |-> <<>>, raised |-> "none"]

\* The body of the loop with <= for <: the cutoff itself is old enough.
marked_for_deletion_inclusive(session_data, cutoff_time) ==
    LET timestamp == DictGet(session_data, "timestamp", <<>>)
    IN  IF timestamp # <<>>
        THEN LET session_time == fromisoformat(timestamp)
             IN  IF session_time.raised = "none"
                 THEN session_time.value <= cutoff_time
                 ELSE TRUE
        ELSE FALSE

\* The body of the loop of cleanup_old_sessions: whether the key of
\* session_data goes to keys_to_delete.
marked_for_deletion(session_data, cutoff_time) ==
    LET timestamp == DictGet(session_data, "timestamp", <<>>)
    IN  IF timestamp # <<>>
        THEN LET session_time == fromisoformat(timestamp)
             IN  IF session_time.raised = "none"
                 THEN session_time.value < cutoff_time
                 ELSE TRUE
        ELSE FALSE

\* cleanup_old_sessions with the age counted in minutes: a factor 60 is lost.
cleanup_old_sessions_minutes(db, max_age_days, t) ==
    LET cutoff_time == t - (max_age_days * 24 * 60)
        keys_to_delete == {key \in DOMAIN db : marked_for_deletion(db[key], cutoff_time)}
    IN  [db |-> [key \in DOMAIN db \ keys_to_delete |-> db[key]],
         ret |-> <<>>, raised |-> "none"]

cleanup_old_sessions(db, max_age_days, t) ==
    LET cutoff_time == t - (max_age_days * 24 * 60 * 60)
        keys_to_delete == {key \in DOMAIN db : marked_for_deletion(db[key], cutoff_time)}
    IN  [db |-> [key \in DOMAIN db \ keys_to_delete |-> db[key]],
         ret |-> <<>>, raised |-> "none"]

(***************************************************************************)
(* The start of the process: src/app_chat.py, lines 24 to 29, 125 to 164   *)
(* and 428 to 440.  The environment is the set of paths that exist on      *)
(* disk, whether graph_rag and llama_cpp can be imported, and whether      *)
(* Llama(...) succeeds on the file it is given.                            *)
(***************************************************************************)

\* possible_paths of load_model, in its order.
possible_paths ==
    <<"qwen1.5-1.8b.Q4_K_M.gguf",
      "/home/cdsw/qwen1.5-1.8b.Q4_K_M.gguf",
      "/home/cdsw/models/qwen1.5-1.8b.Q4_K_M.gguf">>

\* The loop of lines 141 to 145 without its break: every candidate is
\* probed and the last one that exists is kept.
RECURSIVE probe_without_break(_, _, _)
probe_without_break(paths, files, i) ==
    IF i > Len(paths) THEN [model_path |-> PyNone, probed |-> <<>>]
    ELSE LET rest == probe_without_break(paths, files, i + 1)
         IN  [model_path |-> IF rest.model_path # PyNone THEN rest.model_path
                             ELSE IF paths[i] \in files THEN PyStr(paths[i])
                             ELSE PyNone,
              probed |-> <<paths[i]>> \o rest.probed]

\* The loop of lines 141 to 145 from candidate i on: the paths
\* os.path.exists is asked about, in order, and the model_path it leaves.
RECURSIVE probe(_, _, _)
probe(paths, files, i) ==
    IF i > Len(paths) THEN [model_path |-> PyNone, probed |-> <<>>]
    ELSE IF paths[i] \in files
    THEN [model_path |-> PyStr(paths[i]), probed |-> <<paths[i]>>]
    ELSE LET rest == probe(paths, files, i + 1)
         IN  [model_path |-> rest.model_path, probed |-> <<paths[i]>> \o rest.probed]

\* load_model(): what it returns, the llm it leaves, the path it chose, the
\* paths it probed and whether it called Llama(...).
load_model(files, llama_cpp, init_ok) ==
    IF ~llama_cpp
    THEN [ret |-> FALSE, llm |-> "None", model_path |-> PyNone, probed |-> <<>>,
          init |-> FALSE]
    ELSE LET found == probe(possible_paths, files, 1)
         IN  IF found.model_path = PyNone
             THEN [ret |-> FALSE, llm |-> "None", model_path |-> PyNone,
                   probed |-> found.probed, init |-> FALSE]
             ELSE IF init_ok
             THEN [ret |-> TRUE, llm |-> "Llama", model_path |-> found.model_path,
                   probed |-> found.probed, init |-> TRUE]
             ELSE [ret |-> FALSE, llm |-> "None", model_path |-> found.model_path,
                   probed |-> found.probed, init |-> TRUE]

\* The module level down to line 33: the import of graph_rag, whose except
\* clause calls logger.warning on line 28, five lines before logger is
\* bound; the NameError ends the process with a traceback and status 1.
import_module(graph_rag) ==
    IF graph_rag
    THEN [stage |-> "main", raised |-> "none", exit_status |-> PyNone,
          GRAPH_RAG_AVAILABLE |-> "True"]
    ELSE [stage |-> "exited", raised |-> "NameError", exit_status |-> PyInt(1),
          GRAPH_RAG_AVAILABLE |-> "unbound"]

\* Lines 109 to 119: the GraphRAG components are built when the import went
\* well; an exception of a constructor is logged and turns the flag off.
init_graph_rag(available, components_ok) ==
    IF available = "True" /\ ~components_ok THEN "False" ELSE available

\* GET /uat, lines 329 to 343.
uat_page(sess, db, available) ==
    IF available # "True"
    THEN [session |-> sess, db |-> db, status |-> 503, redirect |-> "idle",
          raised |-> "none"]
    ELSE LET with_cases == IF "uat_test_cases" \in DOMAIN sess THEN sess
                           ELSE DictSet(sess, "uat_test_cases", <<>>)
             with_variables == IF "uat_variables" \in DOMAIN with_cases THEN with_cases
                               ELSE DictSet(with_cases, "uat_variables", EmptyDict)
         IN  [session |-> with_variables, db |-> db, status |-> 200, redirect |-> "idle",
              raised |-> "none"]

\* The __main__ block with the server started whatever load_model returned.
main_serves_unloaded(model_loaded) == [stage |-> "serving", exit_status |-> PyNone]

\* The __main__ block after load_model: serve_forever, or exit(1).
main(model_loaded) ==
    IF model_loaded
    THEN [stage |-> "serving", exit_status |-> PyNone]
    ELSE [stage |-> "exited", exit_status |-> PyInt(1)]

\* A process that found the model in its working directory, loaded it and
\* serves.
Started ==
    [stage |-> "serving", files |-> {possible_paths[1]}, graph_rag |-> TRUE,
     llama_cpp |-> TRUE, init_ok |-> TRUE, model_loaded |-> TRUE,
     model_path |-> PyStr(possible_paths[1]), probed |-> <<possible_paths[1]>>,
     init |-> TRUE, exit_status |-> PyNone, components_ok |-> TRUE,
     GRAPH_RAG_AVAILABLE |-> "True"]

(***************************************************************************)
(* The store functions called directly, on a shelf that earlier runs and   *)
(* earlier versions of the program may have left behind.                   *)
(***************************************************************************)

\* Steps of one behaviour.
MaxCalls == 3

\* The clock at start: 2026-01-03T00:00:00.
Now0 == 2 * SecondsPerDay

INSTRUCT == <<"I", "n", "s", "t", "r", "u", "c", "t", ":">>

OUTPUT == <<"\n", "O", "u", "t", "p", "u", "t", ":">>

\* Two turns, as test_prompt_construction writes them: an instruction, an answer.
TurnHi == INSTRUCT \o <<" ", "H", "i">> \o OUTPUT

TurnOk == <<"o", "k">>

HistA == <<TurnHi, TurnOk>>

HistB == <<TurnOk, TurnHi, TurnOk>>

StoreKeys == {<<"a">>, <<"a", "b">>, <<"B">>}

\* The (history, timings) pairs save_session is called with.
SaveArgs == {<<<<>>, <<>>>>, <<HistA, <<"t">>>>, <<HistB, <<>>>>}

\* max_age_days
AgeArgs == {0, 1}

\* Seconds the clock may advance in one step.
ClockSteps == {1, SecondsPerDay}

\* Entries found on the shelf at start: one written without a timestamp, one
\* with an empty one, one with a timestamp that is no ISO date, and three
\* written a day before Now0, give or take a second.
LegacyEntries ==
    {[history |-> HistA],
     [history |-> HistA, timings |-> <<>>, timestamp |-> <<>>],
     [history |-> HistA, timings |-> <<>>, timestamp |-> <<"n", "/", "a">>],
     [history |-> HistA, timings |-> <<>>, timestamp |-> isoformat(Now0 - SecondsPerDay - 1)],
     [history |-> HistA, timings |-> <<>>, timestamp |-> isoformat(Now0 - SecondsPerDay)],
     [history |-> HistA, timings |-> <<>>, timestamp |-> isoformat(Now0 - SecondsPerDay + 1)]}

InitStores == UNION {[S -> LegacyEntries] : S \in SUBSET {<<"a">>, <<"B">>}}

\* PROMPT_TEMPLATE as the module sets it: "Instruct: {prompt}\nOutput:"
DefaultTemplate == INSTRUCT \o <<" ", "{", "p", "r", "o", "m", "p", "t", "}">> \o OUTPUT

\* SYSTEM_PROMPT as the module sets it, cut after its first words: the code
\* only asks whether it is empty and copies it.
DefaultSystemPrompt ==
    <<"Y", "o", "u", " ", "a", "r", "e", " ", "a", " ", "h", "e", "l", "p", "f", "u", "l",
      " ", "A", "I", " ", "a", "s", "s", "i", "s", "t", "a", "n", "t", ".", "\n">>

NoCall == [op |-> "none", key |-> <<>>, history |-> <<>>, timings |-> <<>>, days |-> 0, at |-> 0]

NoReq ==
    [op |-> "none", key |-> <<>>, prompt |-> <<>>, fresh |-> FALSE, called |-> FALSE,
     outcome |-> [ok |-> FALSE, text |-> <<>>, printed |-> <<>>]]

NoMon == [phase |-> 0, H |-> <<>>, K |-> <<>>, ticked |-> FALSE]

StoreInit ==
    /\ sessions_db \in InitStores
    /\ now = Now0
    /\ session = EmptyDict
    /\ llm = "Llama"
    /\ PROMPT_TEMPLATE = DefaultTemplate
    /\ SYSTEM_PROMPT = DefaultSystemPrompt
    /\ pc = "idle"
    /\ req = NoReq
    /\ mon = NoMon
    /\ call = NoCall
    /\ ret = <<>>
    /\ raised = "none"
    /\ before = NoCall
    /\ prev = EmptyDict
    /\ ncalls = 0
    /\ boot = Started
    /\ llm_input = PyNone
    /\ cfg = [T |-> DefaultTemplate, S |-> DefaultSystemPrompt]
    /\ threads = <<>>
    /\ sys_stdout = "stdout"
    /\ hub_py = PyNone

\* One call of a store function whose result is r.
StoreCall(c, r) ==
    /\ ncalls < MaxCalls
    /\ ncalls' = ncalls + 1
    /\ before' = call
    /\ call' = c
    /\ prev' = sessions_db
    /\ sessions_db' = r.db
    /\ ret' = r.ret
    /\ raised' = r.raised
    /\ UNCHANGED <<now, session, llm, PROMPT_TEMPLATE, SYSTEM_PROMPT, pc, req, mon,
                   boot, llm_input, cfg, threads,
                   sys_stdout, hub_py>>

CallSave ==
    \E k \in StoreKeys, a \in SaveArgs :
        StoreCall([op |-> "save_session", key |-> k, history |-> a[1], timings |-> a[2],
                   days |-> 0, at |-> now],
                  save_session(sessions_db, k, a[1], a[2], now))

CallLoad ==
    \E k \in StoreKeys :
        StoreCall([op |-> "load_session", key |-> k, history |-> <<>>, timings |-> <<>>,
                   days |-> 0, at |-> now],
                  load_session(sessions_db, k))

CallDelete ==
    \E k \in StoreKeys :
        StoreCall([op |-> "delete_session", key |-> k, history |-> <<>>, timings |-> <<>>,
                   days |-> 0, at |-> now],
                  delete_session(sessions_db, k))

CallList ==
    StoreCall([op |-> "get_all_sessions", key |-> <<>>, history |-> <<>>, timings |-> <<>>,
               days |-> 0, at |-> now],
              get_all_sessions(sessions_db))

CallCleanup ==
    \E d \in AgeArgs :
        StoreCall([op |-> "cleanup_old_sessions", key |-> <<>>, history |-> <<>>,
                   timings |-> <<>>, days |-> d, at |-> now],
                  cleanup_old_sessions(sessions_db, d, now))

\* Time passes between two calls.
StoreTick ==
    \E d \in ClockSteps :
        /\ ncalls < MaxCalls
        /\ ncalls' = ncalls + 1
        /\ now' = now + d
        /\ UNCHANGED <<sessions_db, session, llm, PROMPT_TEMPLATE, SYSTEM_PROMPT, pc, req, mon,
                       call, ret, raised, before, prev, boot, llm_input, cfg, threads,
                   sys_stdout, hub_py>>

StoreNext == CallSave \/ CallLoad \/ CallDelete \/ CallList \/ CallCleanup \/ StoreTick

StoreSpec == StoreInit /\ [][StoreNext]_vars

(***************************************************************************)
(* The claims about the store functions, under StoreSpec.                  *)
(***************************************************************************)

\* Every key other than k is stored after the last call exactly as before it.
OthersUnchanged(k) ==
    \A j \in (DOMAIN prev \cup DOMAIN sessions_db) \ {k} :
        /\ j \in DOMAIN prev
        /\ j \in DOMAIN sessions_db
        /\ sessions_db[j] = prev[j]

\* C5: load_session(k) right after save_session(k, h, t) returns exactly
\* (h, t), the turns of h in their order, whatever the shelf held before.
C5_SaveLoadRoundTrip ==
    call.op = "save_session" =>
        /\ raised = "none"
        /\ load_session(sessions_db, call.key).ret = <<call.history, call.timings>>
        /\ load_session(sessions_db, call.key).raised = "none"

\* A save of the three turns of HistB over an entry that held something else.
C5_Witness ==
    /\ call.op = "save_session"
    /\ call.history = HistB
    /\ call.key \in DOMAIN prev
    /\ prev[call.key].history # HistB
    /\ sessions_db[call.key].history = HistB

\* C6: load_session of a key that is not on the shelf returns the empty
\* history and the empty timings, raises nothing and leaves the shelf as it was.
C6_LoadAbsent ==
    (call.op = "load_session" /\ call.key \notin DOMAIN prev) =>
        /\ ret = <<<<>>, <<>>>>
        /\ raised = "none"
        /\ sessions_db = prev

\* A load of a key that was deleted by the call before, other keys being stored.
C6_Witness ==
    /\ call.op = "load_session"
    /\ before.op = "delete_session"
    /\ before.key = call.key
    /\ call.key \notin DOMAIN prev
    /\ prev # EmptyDict
    /\ ret = <<<<>>, <<>>>>

\* C7: a save_session under a key that is already stored replaces that
\* entry's history: load_session returns the new one, the key is listed once,
\* and the entries under all other keys are untouched.
C7_Overwrite ==
    (call.op = "save_session" /\ call.key \in DOMAIN prev) =>
        /\ load_session(sessions_db, call.key).ret[1] = call.history
        /\ Cardinality(DOMAIN sessions_db) = Cardinality(DOMAIN prev)
        /\ Cardinality({i \in 1..Len(get_all_sessions(sessions_db).ret) :
                            get_all_sessions(sessions_db).ret[i] = call.key}) = 1
        /\ OthersUnchanged(call.key)

\* save_session(k, HistA) and then save_session(k, HistB), another key being stored.
C7_Witness ==
    /\ call.op = "save_session"
    /\ before.op = "save_session"
    /\ before.key = call.key
    /\ before.history = HistA
    /\ call.history = HistB
    /\ call.key \in DOMAIN prev
    /\ prev[call.key].history = HistA
    /\ DOMAIN sessions_db # {call.key}

\* C8: delete_session(k) raises nothing whether or not k is stored, leaves k
\* absent and every other entry untouched, and a second delete_session(k)
\* changes nothing more.
C8_DeleteIdempotent ==
    call.op = "delete_session" =>
        /\ raised = "none"
        /\ call.key \notin DOMAIN sessions_db
        /\ OthersUnchanged(call.key)
        /\ delete_session(sessions_db, call.key).raised = "none"
        /\ delete_session(sessions_db, call.key).db = sessions_db
        /\ (before.op = "delete_session" /\ before.key = call.key => sessions_db = prev)

\* delete_session(k) twice in a row, other keys being stored.
C8_Witness ==
    /\ call.op = "delete_session"
    /\ before.op = "delete_session"
    /\ before.key = call.key
    /\ call.key \notin DOMAIN prev
    /\ sessions_db # EmptyDict

\* C9: get_all_sessions returns the stored keys, each once, in descending
\* order of str comparison, and the empty list for an empty shelf; it
\* raises nothing.
C9_ListSortedDescending ==
    call.op = "get_all_sessions" =>
        /\ raised = "none"
        /\ sessions_db = prev
        /\ Len(ret) = Cardinality(DOMAIN sessions_db)
        /\ {ret[i] : i \in 1..Len(ret)} = DOMAIN sessions_db
        /\ \A i \in 1..Len(ret) : \A j \in 1..Len(ret) : i < j => StrLess(ret[j], ret[i])
        /\ (sessions_db = EmptyDict => ret = <<>>)

\* A listing of three keys after a save: "ab", "a", "B".
C9_Witness ==
    /\ call.op = "get_all_sessions"
    /\ before.op \in {"save_session", "delete_session", "cleanup_old_sessions"}
    /\ ret = << <<"a", "b">>, <<"a">>, <<"B">> >>

\* Whether cleanup_old_sessions(max_age_days) at time t should purge the entry
\* as C10 reads it: no timestamp, an empty or an unparsable one, or an old one.
C10_ShouldPurge(entry, max_age_days, t) ==
    \/ "timestamp" \notin DOMAIN entry
    \/ entry.timestamp = <<>>
    \/ ~IsIsoString(entry.timestamp)
    \/ fromisoformat(entry.timestamp).value < t - max_age_days * SecondsPerDay

\* C10: cleanup_old_sessions removes every entry whose timestamp is missing,
\* empty or unparsable, and every entry older than the cutoff.
C10_PurgesUntimestamped ==
    call.op = "cleanup_old_sessions" =>
        \A k \in DOMAIN prev :
            C10_ShouldPurge(prev[k], call.days, call.at) => k \notin DOMAIN sessions_db

\* Whether the entry has a timestamp that datetime.fromisoformat parses.
HasSessionTime(entry) == "timestamp" \in DOMAIN entry /\ IsIsoString(entry.timestamp)

\* The seconds of such an entry's timestamp.
SessionTime(entry) == fromisoformat(entry.timestamp).value

\* The cutoff of the cleanup_old_sessions call that ran last.
CallCutoff == call.at - call.days * SecondsPerDay

\* C11 as stated: cleanup_old_sessions(maxAgeDays) removes an entry whose
\* timestamp is exactly now minus maxAgeDays days.
C11_BoundaryInclusive ==
    call.op = "cleanup_old_sessions" =>
        \A k \in DOMAIN prev :
            (HasSessionTime(prev[k]) /\ SessionTime(prev[k]) = CallCutoff)
                => k \notin DOMAIN sessions_db

\* C11 amended: cleanup_old_sessions(maxAgeDays) keeps, unchanged, an entry
\* whose timestamp is exactly now minus maxAgeDays days, and removes an
\* entry that is one second older.
C11_BoundaryExclusive ==
    call.op = "cleanup_old_sessions" =>
        \A k \in DOMAIN prev :
            /\ (HasSessionTime(prev[k]) /\ SessionTime(prev[k]) = CallCutoff)
                   => (k \in DOMAIN sessions_db /\ sessions_db[k] = prev[k])
            /\ (HasSessionTime(prev[k]) /\ SessionTime(prev[k]) = CallCutoff - 1)
                   => k \notin DOMAIN sessions_db

\* cleanup_old_sessions(1) on a shelf with an entry written exactly a day
\* ago, which stays, and one written a second earlier, which goes.
C11_Witness ==
    /\ call.op = "cleanup_old_sessions"
    /\ call.days = 1
    /\ \E k \in DOMAIN prev :
           /\ HasSessionTime(prev[k])
           /\ SessionTime(prev[k]) = CallCutoff
           /\ k \in DOMAIN sessions_db
    /\ \E j \in DOMAIN prev :
           /\ HasSessionTime(prev[j])
           /\ SessionTime(prev[j]) = CallCutoff - 1
           /\ j \notin DOMAIN sessions_db

\* C12: cleanup_old_sessions raises nothing, keeps with the same history,
\* timings and timestamp every entry whose timestamp parses and is at least
\* one second younger than the cutoff, and leaves no entry on the shelf that
\* was not there before or that differs from what was there.
C12_RetainsYounger ==
    call.op = "cleanup_old_sessions" =>
        /\ raised = "none"
        /\ \A k \in DOMAIN sessions_db : k \in DOMAIN prev /\ sessions_db[k] = prev[k]
        /\ \A k \in DOMAIN prev :
               (HasSessionTime(prev[k]) /\ SessionTime(prev[k]) >= CallCutoff + 1)
                   => (k \in DOMAIN sessions_db /\ sessions_db[k] = prev[k])

\* A cleanup_old_sessions that kept an entry one second younger than the
\* cutoff, history and all, and removed another.
C12_Witness ==
    /\ call.op = "cleanup_old_sessions"
    /\ \E k \in DOMAIN prev :
           /\ HasSessionTime(prev[k])
           /\ SessionTime(prev[k]) = CallCutoff + 1
           /\ k \in DOMAIN sessions_db
           /\ sessions_db[k].history = HistA
    /\ DOMAIN sessions_db # DOMAIN prev

(***************************************************************************)
(* The chat logic and the routes: src/app_chat.py, lines 166 to 301.  A    *)
(* handler's result is the session and the shelf it leaves, the HTTP       *)
(* status, the route it redirects to ("idle" when it does not redirect)    *)
(* and the exception that escaped it, if any.                              *)
(***************************************************************************)

PLACEHOLDER == <<"p", "r", "o", "m", "p", "t">>

ERROR_PREFIX ==
    <<"E", "r", "r", "o", "r", " ", "g", "e", "n", "e", "r", "a", "t", "i", "n", "g", " ",
      "r", "e", "s", "p", "o", "n", "s", "e", ":", " ">>

\* s in front of the rest of a formatting that went well.
Emit(s, rest) ==
    IF rest.raised = "none" THEN [raised |-> "none", value |-> s \o rest.value] ELSE rest

\* template.format(prompt=prompt) from position i on: "{{" and "}}" print a
\* brace, "{prompt}" prints the prompt, any other field and any single brace
\* raises.
RECURSIVE FormatFrom(_, _, _)
FormatFrom(template, prompt, i) ==
    IF i > Len(template) THEN [raised |-> "none", value |-> <<>>]
    ELSE IF template[i] = "{"
    THEN IF i < Len(template) /\ template[i + 1] = "{"
         THEN Emit(<<"{">>, FormatFrom(template, prompt, i + 2))
         ELSE LET closing == {j \in (i + 1)..Len(template) : template[j] = "}"}
              IN  IF closing = {} THEN [raised |-> "ValueError", value |-> <<>>]
                  ELSE LET j == CHOOSE m \in closing : \A n \in closing : m <= n
                           field == SubSeq(template, i + 1, j - 1)
                       IN  IF field = PLACEHOLDER
                           THEN Emit(prompt, FormatFrom(template, prompt, j + 1))
                           ELSE IF field = <<>> \/ \A n \in 1..Len(field) : IsDigit(field[n])
                           THEN [raised |-> "IndexError", value |-> <<>>]
                           ELSE [raised |-> "KeyError", value |-> <<>>]
    ELSE IF template[i] = "}"
    THEN IF i < Len(template) /\ template[i + 1] = "}"
         THEN Emit(<<"}">>, FormatFrom(template, prompt, i + 2))
         ELSE [raised |-> "ValueError", value |-> <<>>]
    ELSE Emit(<<template[i]>>, FormatFrom(template, prompt, i + 1))

\* PROMPT_TEMPLATE.format(prompt=prompt)
format(template, prompt) == FormatFrom(template, prompt, 1)

\* int(s) for a form field: ValueError unless s is a run of digits.
RECURSIVE DigitsValue(_)
DigitsValue(s) == IF s = <<>> THEN 0 ELSE 10 * DigitsValue(SubSeq(s, 1, Len(s) - 1)) + DigitVal(s[Len(s)])

int(s) ==
    IF s # <<>> /\ \A n \in 1..Len(s) : IsDigit(s[n])
    THEN [raised |-> "none", value |-> DigitsValue(s)]
    ELSE [raised |-> "ValueError", value |-> 0]

\* generate_response with the model call's outcome: the text it returns or
\* the message of the exception it raises, and what it prints meanwhile.
\* generate_response without line 178: the history is not sent.
generate_response_without_history(sess, prompt, max_tokens, outcome, template, system_prompt) ==
    LET history == DictGet(sess, "chat_history", <<>>)
        system_part == IF system_prompt # <<>> THEN <<system_prompt>> ELSE <<>>
        formatted_prompt == format(template, prompt)
    IN  IF formatted_prompt.raised # "none"
        THEN [session |-> sess, raised |-> formatted_prompt.raised, called |-> FALSE,
              full_prompt |-> <<>>]
        ELSE LET full_prompt ==
                     StrJoin(<<"\n">>, system_part \o <<formatted_prompt.value>>)
             IN  IF outcome.ok
                 THEN [session |->
                           DictSet(DictSet(sess, "chat_history",
                                           Append(history, StrStrip(outcome.text))),
                                   "timings", outcome.printed),
                       raised |-> "none", called |-> TRUE, full_prompt |-> full_prompt]
                 ELSE [session |->
                           DictSet(sess, "chat_history",
                                   Append(history, ERROR_PREFIX \o outcome.text)),
                       raised |-> "none", called |-> TRUE, full_prompt |-> full_prompt]

\* generate_response without its try: the exception of the model call
\* leaves the function.
generate_response_reraises(sess, prompt, max_tokens, outcome, template, system_prompt) ==
    LET history == DictGet(sess, "chat_history", <<>>)
        system_part == IF system_prompt # <<>> THEN <<system_prompt>> ELSE <<>>
        formatted_prompt == format(template, prompt)
    IN  IF formatted_prompt.raised # "none"
        THEN [session |-> sess, raised |-> formatted_prompt.raised, called |-> FALSE,
              full_prompt |-> <<>>]
        ELSE LET full_prompt ==
                     StrJoin(<<"\n">>, system_part \o history \o <<formatted_prompt.value>>)
             IN  IF outcome.ok
                 THEN [session |->
                           DictSet(DictSet(sess, "chat_history",
                                           Append(history, StrStrip(outcome.text))),
                                   "timings", outcome.printed),
                       raised |-> "none", called |-> TRUE, full_prompt |-> full_prompt]
                 ELSE [session |-> sess, raised |-> "Exception", called |-> TRUE,
                       full_prompt |-> full_prompt]

\* generate_response with lines 205 and 214 assigning a new list.
generate_response_starts_over(sess, prompt, max_tokens, outcome, template, system_prompt) ==
    LET history == DictGet(sess, "chat_history", <<>>)
        system_part == IF system_prompt # <<>> THEN <<system_prompt>> ELSE <<>>
        formatted_prompt == format(template, prompt)
    IN  IF formatted_prompt.raised # "none"
        THEN [session |-> sess, raised |-> formatted_prompt.raised, called |-> FALSE,
              full_prompt |-> <<>>]
        ELSE LET full_prompt ==
                     StrJoin(<<"\n">>, system_part \o history \o <<formatted_prompt.value>>)
             IN  IF outcome.ok
                 THEN [session |->
                           DictSet(DictSet(sess, "chat_history",
                                           <<StrStrip(outcome.text)>>),
                                   "timings", outcome.printed),
                       raised |-> "none", called |-> TRUE, full_prompt |-> full_prompt]
                 ELSE [session |->
                           DictSet(sess, "chat_history",
                                   <<ERROR_PREFIX \o outcome.text>>),
                       raised |-> "none", called |-> TRUE, full_prompt |-> full_prompt]

generate_response(sess, prompt, max_tokens, outcome, template, system_prompt) ==
    LET history == DictGet(sess, "chat_history", <<>>)
        system_part == IF system_prompt # <<>> THEN <<system_prompt>> ELSE <<>>
        formatted_prompt == format(template, prompt)
    IN  IF formatted_prompt.raised # "none"
        THEN [session |-> sess, raised |-> formatted_prompt.raised, called |-> FALSE,
              full_prompt |-> <<>>]
        ELSE LET full_prompt ==
                     StrJoin(<<"\n">>, system_part \o history \o <<formatted_prompt.value>>)
             IN  IF outcome.ok
                 THEN [session |->
                           DictSet(DictSet(sess, "chat_history",
                                           Append(history, StrStrip(outcome.text))),
                                   "timings", outcome.printed),
                       raised |-> "none", called |-> TRUE, full_prompt |-> full_prompt]
                 ELSE [session |->
                           DictSet(sess, "chat_history",
                                   Append(history, ERROR_PREFIX \o outcome.text)),
                       raised |-> "none", called |-> TRUE, full_prompt |-> full_prompt]

\* Lines 243-245 and 284-286: the session id made up for a history saved
\* for the first time.
derived_session_id(history, t) ==
    LET first_prompt == StrStrip(StrReplace(StrReplace(history[1], INSTRUCT, <<>>), OUTPUT, <<>>))
        safe_name == secure_filename(Slice(first_prompt, 30))
    IN  strftime(t) \o <<"_">> \o safe_name

main_page(sess, db) ==
    [session |->
         IF "session_id" \notin DOMAIN sess
         THEN DictSet(DictSet(DictSet(sess, "session_id", PyNone), "chat_history", <<>>),
                      "timings", <<>>)
         ELSE sess,
     db |-> get_all_sessions(db).db,
     status |-> 200, redirect |-> "idle", raised |-> "none"]

new_chat_forgets_timings(sess, db, t) ==
    LET history == DictGet(sess, "chat_history", <<>>)
        timings == DictGet(sess, "timings", <<>>)
        session_id == IF Truthy(DictGet(sess, "session_id", PyNone))
                      THEN DictGet(sess, "session_id", PyNone).v
                      ELSE derived_session_id(history, t)
    IN  [session |-> DictPop(DictPop(sess, "session_id"), "chat_history"),
         db |-> IF history # <<>> THEN save_session(db, session_id, history, timings, t).db
                ELSE db,
         status |-> 302, redirect |-> "main_page", raised |-> "none"]

\* new_chat without lines 240 to 246: the session is cleared, nothing saved.
new_chat_without_save(sess, db, t) ==
    [session |-> DictPop(DictPop(DictPop(sess, "session_id"), "chat_history"), "timings"),
     db |-> db, status |-> 302, redirect |-> "main_page", raised |-> "none"]

new_chat(sess, db, t) ==
    LET history == DictGet(sess, "chat_history", <<>>)
        timings == DictGet(sess, "timings", <<>>)
        session_id == IF Truthy(DictGet(sess, "session_id", PyNone))
                      THEN DictGet(sess, "session_id", PyNone).v
                      ELSE derived_session_id(history, t)
    IN  [session |-> DictPop(DictPop(DictPop(sess, "session_id"), "chat_history"), "timings"),
         db |-> IF history # <<>> THEN save_session(db, session_id, history, timings, t).db
                ELSE db,
         status |-> 302, redirect |-> "main_page", raised |-> "none"]

view_session_keeps_id(sess, db, session_id) ==
    LET loaded == load_session(db, session_id)
    IN  [session |-> DictSet(DictSet(sess, "chat_history", loaded.ret[1]),
                             "timings", loaded.ret[2]),
         db |-> loaded.db,
         status |-> 302, redirect |-> "main_page", raised |-> "none"]

view_session(sess, db, session_id) ==
    LET loaded == load_session(db, session_id)
    IN  [session |-> DictSet(DictSet(DictSet(sess, "session_id", PyStr(session_id)),
                                     "chat_history", loaded.ret[1]),
                             "timings", loaded.ret[2]),
         db |-> loaded.db,
         status |-> 302, redirect |-> "main_page", raised |-> "none"]

\* form_prompt and form_max_tokens are the two form fields: PyNone when the
\* field is absent, else PyStr of what the client sent.
ask_question(sess, db, form_prompt, form_max_tokens, outcome, model, template, system_prompt) ==
    IF model = "None"
    THEN [session |-> sess, db |-> db, status |-> 503, redirect |-> "idle",
          raised |-> "none", called |-> FALSE]
    ELSE LET prompt == IF form_prompt = PyNone THEN <<>> ELSE form_prompt.v
             max_tokens == IF form_max_tokens = PyNone
                           THEN [raised |-> "none", value |-> 1024]
                           ELSE int(form_max_tokens.v)
         IN  IF max_tokens.raised # "none"
             THEN [session |-> sess, db |-> db, status |-> 500, redirect |-> "idle",
                   raised |-> max_tokens.raised, called |-> FALSE]
             ELSE IF prompt = <<>>
             THEN [session |-> sess, db |-> db, status |-> 400, redirect |-> "idle",
                   raised |-> "none", called |-> FALSE]
             ELSE LET g == generate_response(sess, prompt, max_tokens.value, outcome,
                                             template, system_prompt)
                  IN  IF g.raised # "none"
                      THEN [session |-> g.session, db |-> db, status |-> 500,
                            redirect |-> "idle", raised |-> g.raised, called |-> g.called]
                      ELSE [session |-> g.session, db |-> db, status |-> 302,
                            redirect |-> "main_page", raised |-> "none", called |-> g.called,
                            full_prompt |-> PyStr(g.full_prompt)]

\* save_current_session without the test on line 283: a key is derived even
\* when the session has an id.
save_current_session_derives(sess, db, t) ==
    LET history == DictGet(sess, "chat_history", <<>>)
        timings == DictGet(sess, "timings", <<>>)
        session_id == derived_session_id(history, t)
    IN  IF history # <<>>
        THEN [session |-> DictSet(sess, "session_id", PyStr(session_id)),
              db |-> save_session(db, session_id, history, timings, t).db,
              status |-> 302, redirect |-> "main_page", raised |-> "none"]
        ELSE [session |-> sess, db |-> db,
              status |-> 302, redirect |-> "main_page", raised |-> "none"]

save_current_session(sess, db, t) ==
    LET history == DictGet(sess, "chat_history", <<>>)
        timings == DictGet(sess, "timings", <<>>)
        session_id == IF Truthy(DictGet(sess, "session_id", PyNone))
                      THEN DictGet(sess, "session_id", PyNone).v
                      ELSE derived_session_id(history, t)
    IN  IF history # <<>>
        THEN [session |-> DictSet(sess, "session_id", PyStr(session_id)),
              db |-> save_session(db, session_id, history, timings, t).db,
              status |-> 302, redirect |-> "main_page", raised |-> "none"]
        ELSE [session |-> sess, db |-> db,
              status |-> 302, redirect |-> "main_page", raised |-> "none"]

delete_session_route(sess, db, session_id) ==
    LET active_session_id == DictGet(sess, "session_id", PyNone)
    IN  [session |-> sess,
         db |-> delete_session(db, session_id).db,
         status |-> 302,
         redirect |-> IF active_session_id = PyStr(session_id) THEN "new_chat" ELSE "main_page",
         raised |-> "none"]

(***************************************************************************)
(* One client of the running server.  The client issues a request when it  *)
(* has no redirect to follow (pc = "idle") and otherwise requests the      *)
(* route it was redirected to.  The server runs only with the model        *)
(* loaded (lines 428 to 440), on a shelf that is empty at first.           *)
(***************************************************************************)

\* Requests the client issues in one behaviour.
MaxRequests == 5

\* Times the clock advances in one behaviour.
MaxTicks == 1

\* Seconds the clock advances at a time: one minute.
TickSeconds == {60}

\* What the client may type into the prompt field (absent, empty, a prompt).
FormPrompts == {PyNone, PyStr(<<>>), PyStr(<<"H", "i">>)}

\* What it may send as max_tokens.
FormMaxTokens == {PyNone, PyStr(<<"6", "4">>), PyStr(<<"a", "b", "c">>)}

\* What the model call may do: return a text and print its timings, or raise.
ModelOutcomes ==
    {[ok |-> TRUE, text |-> <<" ", "o", "k", "\n">>, printed |-> <<"t">>],
     [ok |-> FALSE, text |-> <<"o", "o", "m">>, printed |-> <<>>]}

\* The session ids the client may put in a URL: one of its own choice, the
\* ones the main page lists, and the one it is in.
UrlKeys ==
    {<<"a">>} \cup DOMAIN sessions_db
        \cup (IF Truthy(DictGet(session, "session_id", PyNone))
              THEN {DictGet(session, "session_id", PyNone).v} ELSE {})

\* The cookie of a client that comes for the first time, and of one that
\* has seen the main page before.
InitSessions ==
    {EmptyDict, [session_id |-> PyNone, chat_history |-> <<>>, timings |-> <<>>]}

Init ==
    /\ sessions_db = EmptyDict
    /\ now = Now0
    /\ session \in InitSessions
    /\ llm = "Llama"
    /\ PROMPT_TEMPLATE = DefaultTemplate
    /\ SYSTEM_PROMPT = DefaultSystemPrompt
    /\ pc = "idle"
    /\ req = NoReq
    /\ mon = NoMon
    /\ call = NoCall
    /\ ret = 0
    /\ raised = "none"
    /\ before = NoCall
    /\ prev = EmptyDict
    /\ ncalls = 0
    /\ boot = Started
    /\ llm_input = PyNone
    /\ cfg = [T |-> DefaultTemplate, S |-> DefaultSystemPrompt]
    /\ threads = <<>>
    /\ sys_stdout = "stdout"
    /\ hub_py = PyNone

\* The observer after a handler ran: phase 1 once /save_session has saved a
\* history H under a key K it derived, phase 2 after the /new_chat that
\* follows, phase 3 after the /session/K that follows that.
MonAfter(op, key) ==
    IF op = "main_page" THEN mon
    ELSE IF op = "save_current_session"
    THEN LET history == DictGet(session, "chat_history", <<>>)
         IN  IF history # <<>> /\ ~Truthy(DictGet(session, "session_id", PyNone))
             THEN [phase |-> 1, H |-> history, K |-> derived_session_id(history, now),
                   ticked |-> FALSE]
             ELSE NoMon
    ELSE IF op = "new_chat" /\ pc = "idle" /\ mon.phase = 1 THEN [mon EXCEPT !.phase = 2]
    ELSE IF op = "view_session" /\ mon.phase = 2 /\ key = mon.K THEN [mon EXCEPT !.phase = 3]
    ELSE NoMon

\* A handler ran and answered with r; rq is the request as the client issued it.
Serve(op, key, rq, r) ==
    /\ IF pc = "idle"
       THEN ncalls < MaxRequests /\ ncalls' = ncalls + 1 /\ req' = rq
       ELSE UNCHANGED <<ncalls, req>>
    /\ before' = call
    /\ call' = [op |-> op, key |-> key, history |-> <<>>, timings |-> <<>>, days |-> 0,
                at |-> now]
    /\ prev' = sessions_db
    /\ sessions_db' = r.db
    /\ session' = r.session
    /\ pc' = r.redirect
    /\ ret' = r.status
    /\ raised' = r.raised
    /\ mon' = MonAfter(op, key)
    /\ llm_input' = DictGet(r, "full_prompt", PyNone)
    /\ UNCHANGED <<now, llm, PROMPT_TEMPLATE, SYSTEM_PROMPT, boot, cfg, threads,
                   sys_stdout, hub_py>>

Request(op, key) ==
    [op |-> op, key |-> key, prompt |-> <<>>, fresh |-> FALSE, called |-> FALSE,
     outcome |-> [ok |-> FALSE, text |-> <<>>, printed |-> <<>>]]

\* GET /
GetMainPage ==
    /\ pc \in {"idle", "main_page"}
    /\ Serve("main_page", <<>>, Request("main_page", <<>>), main_page(session, sessions_db))

\* GET /new_chat
GetNewChat ==
    /\ pc \in {"idle", "new_chat"}
    /\ Serve("new_chat", <<>>, Request("new_chat", <<>>), new_chat(session, sessions_db, now))

\* GET /session/<session_id>
GetSession ==
    \E k \in UrlKeys :
        /\ pc = "idle"
        /\ Serve("view_session", k, Request("view_session", k),
                 view_session(session, sessions_db, k))

\* POST /ask with the form fields p and m, the model call doing o if the
\* handler gets that far.
AskWith(p, m, o) ==
    LET r == ask_question(session, sessions_db, p, m, o, llm, PROMPT_TEMPLATE,
                          SYSTEM_PROMPT)
    IN  /\ pc = "idle"
        /\ r.called \/ o = CHOOSE x \in ModelOutcomes : TRUE
        /\ Serve("ask_question", <<>>,
                 [op |-> "ask_question", key |-> <<>>,
                  prompt |-> IF p = PyNone THEN <<>> ELSE p.v,
                  fresh |-> DictGet(session, "chat_history", <<>>) = <<>>,
                  called |-> r.called,
                  outcome |-> IF r.called THEN o
                              ELSE [ok |-> FALSE, text |-> <<>>, printed |-> <<>>]],
                 r)

\* POST /ask
PostAsk ==
    \E p \in FormPrompts, m \in FormMaxTokens, o \in ModelOutcomes : AskWith(p, m, o)

\* POST /save_session
PostSaveSession ==
    /\ pc = "idle"
    /\ Serve("save_current_session", <<>>, Request("save_current_session", <<>>),
             save_current_session(session, sessions_db, now))

\* GET /delete_session/<session_id>
GetDeleteSession ==
    \E k \in UrlKeys :
        /\ pc = "idle"
        /\ Serve("delete_session_route", k, Request("delete_session_route", k),
                 delete_session_route(session, sessions_db, k))

\* Time passes between two requests of the client.
Tick ==
    \E d \in TickSeconds :
        /\ pc = "idle"
        /\ now < Now0 + MaxTicks * 60
        /\ now' = now + d
        /\ mon' = IF mon.phase \in {1, 2} THEN [mon EXCEPT !.ticked = TRUE] ELSE mon
        /\ UNCHANGED <<sessions_db, session, llm, PROMPT_TEMPLATE, SYSTEM_PROMPT, pc, req,
                       call, ret, raised, before, prev, ncalls, boot, llm_input, cfg, threads,
                   sys_stdout, hub_py>>

Next ==
    \/ GetMainPage
    \/ GetNewChat
    \/ GetSession
    \/ PostAsk
    \/ PostSaveSession
    \/ GetDeleteSession
    \/ Tick

Spec == Init /\ [][Next]_vars

(***************************************************************************)
(* The claims about the routes, under Spec.                                *)
(***************************************************************************)

\* C1: once the client has requested /delete_session/k and followed every
\* redirect, k is not on the shelf: get_all_sessions does not list it and
\* load_session(k) returns the empty history and timings.
C1_DeleteLeavesKeyAbsent ==
    (req.op = "delete_session_route" /\ pc = "idle") =>
        /\ req.key \notin DOMAIN sessions_db
        /\ \A i \in 1..Len(get_all_sessions(sessions_db).ret) :
               get_all_sessions(sessions_db).ret[i] # req.key
        /\ load_session(sessions_db, req.key).ret = <<<<>>, <<>>>>

\* C2: after a POST /ask with a non-empty prompt on an empty chat history and
\* a model call that returned, the chat history is the formatted instruction
\* followed by the answer.
C2_AskAppendsInstructionAndAnswer ==
    (req.op = "ask_question" /\ req.fresh /\ req.called /\ req.outcome.ok) =>
        DictGet(session, "chat_history", <<>>) =
            <<format(PROMPT_TEMPLATE, req.prompt).value, StrStrip(req.outcome.text)>>

\* C3: /save_session on a non-empty history H without session id, then
\* /new_chat, then /session/K for the key K that /save_session derived,
\* leaves the chat history equal to H and the session id equal to K, also
\* when the clock minute changes in between.
C3_SaveNewChatViewRestores ==
    mon.phase = 3 =>
        /\ DictGet(session, "chat_history", <<>>) = mon.H
        /\ DictGet(session, "session_id", PyNone) = PyStr(mon.K)

\* The three requests done on a history of two turns, the minute having changed.
C3_Witness ==
    /\ mon.phase = 3
    /\ mon.ticked
    /\ Len(mon.H) = 2
    /\ mon.H[1] # mon.H[2]
    /\ pc = "idle"

\* C4: /new_chat removes no key from the shelf and leaves the session
\* without session id, chat history and timings; the main page it redirects
\* to then shows none.
C4_NewChatKeepsStoredSessions ==
    /\ call.op = "new_chat" =>
           /\ \A k \in DOMAIN prev : k \in DOMAIN sessions_db
           /\ DOMAIN session \cap {"session_id", "chat_history", "timings"} = {}
    /\ (call.op = "main_page" /\ before.op = "new_chat") =>
           /\ DictGet(session, "session_id", PyNone) = PyNone
           /\ DictGet(session, "chat_history", <<>>) = <<>>
           /\ DictGet(session, "timings", <<>>) = <<>>

\* A /new_chat that saved the chat under a new key beside a stored one.
C4_Witness ==
    /\ call.op = "new_chat"
    /\ prev # EmptyDict
    /\ Cardinality(DOMAIN sessions_db) > Cardinality(DOMAIN prev)
    /\ \A k \in DOMAIN prev : sessions_db[k] = prev[k]

\* C13: every POST /ask whose prompt field is empty or missing is answered
\* with a 4xx status, does not call the model and leaves the session and the
\* shelf as they were, whatever the max_tokens field holds.
C13_EmptyPromptRejected ==
    [][(PostAsk /\ req'.prompt = <<>>) =>
           /\ ret' \in 400..499
           /\ ~req'.called
           /\ llm_input' = PyNone
           /\ session' = session
           /\ sessions_db' = sessions_db]_vars

\* C14: when the model call of a POST /ask raises, no exception leaves the
\* handler, the chat history is what it was with one more turn, the failure
\* message, the shelf is untouched, the response is the redirect a
\* successful call gets, and the request that follows is served.
C14_ModelFailureIsATurn ==
    [][/\ (call'.op = "ask_question" /\ req'.called /\ ~req'.outcome.ok /\ PostAsk) =>
              /\ raised' = "none"
              /\ DictGet(session', "chat_history", <<>>) =
                     Append(DictGet(session, "chat_history", <<>>),
                            ERROR_PREFIX \o req'.outcome.text)
              /\ sessions_db' = sessions_db
              /\ pc' = "main_page"
              /\ \A o \in ModelOutcomes :
                     o.ok =>
                         LET r == ask_question(session, sessions_db, PyStr(req'.prompt),
                                               PyNone, o, llm, PROMPT_TEMPLATE,
                                               SYSTEM_PROMPT)
                         IN  r.status = ret' /\ r.redirect = pc'
       /\ (call.op = "ask_question" /\ req.called /\ ~req.outcome.ok /\ GetMainPage) =>
              (ret' = 200 /\ raised' = "none" /\ pc' = "idle")]_vars

\* The main page served after a model call that raised on a chat of one
\* turn: the chat now ends with the failure message.
C14_Witness ==
    /\ call.op = "main_page"
    /\ before.op = "ask_question"
    /\ req.op = "ask_question"
    /\ req.called
    /\ ~req.outcome.ok
    /\ pc = "idle"
    /\ ret = 200
    /\ DictGet(session, "chat_history", <<>>) =
           <<StrStrip(<<" ", "o", "k", "\n">>), ERROR_PREFIX \o <<"o", "o", "m">>>>

(***************************************************************************)
(* The process from its first line: the module is imported, load_model     *)
(* runs, and the __main__ block serves or exits.  Requests reach the       *)
(* handlers only while the server runs.                                    *)
(***************************************************************************)

\* The paths that may exist on disk: the three candidates and the model
\* file of another variant of the program.
DiskPaths == {possible_paths[i] : i \in 1..Len(possible_paths)} \cup {"phi-2.Q4_K_M.gguf"}

BootInit ==
    /\ sessions_db = EmptyDict
    /\ now = Now0
    /\ session = EmptyDict
    /\ llm = "None"
    /\ PROMPT_TEMPLATE = DefaultTemplate
    /\ SYSTEM_PROMPT = DefaultSystemPrompt
    /\ pc = "idle"
    /\ req = NoReq
    /\ mon = NoMon
    /\ call = NoCall
    /\ ret = 0
    /\ raised = "none"
    /\ before = NoCall
    /\ prev = EmptyDict
    /\ ncalls = 0
    /\ \E files \in SUBSET DiskPaths, graph_rag \in BOOLEAN, llama_cpp \in BOOLEAN,
          init_ok \in BOOLEAN, components_ok \in BOOLEAN :
           boot = [stage |-> "import", files |-> files, graph_rag |-> graph_rag,
                   llama_cpp |-> llama_cpp, init_ok |-> init_ok, model_loaded |-> FALSE,
                   model_path |-> PyNone, probed |-> <<>>, init |-> FALSE,
                   exit_status |-> PyNone, components_ok |-> components_ok,
                   GRAPH_RAG_AVAILABLE |-> "unbound"]
    /\ llm_input = PyNone
    /\ cfg = [T |-> DefaultTemplate, S |-> DefaultSystemPrompt]
    /\ threads = <<>>
    /\ sys_stdout = "stdout"
    /\ hub_py = PyNone

\* The module level: lines 11 to 33, and lines 109 to 119 when the process
\* gets that far.
BootImport ==
    /\ boot.stage = "import"
    /\ LET r == import_module(boot.graph_rag)
       IN  /\ boot' = [boot EXCEPT !.stage = r.stage, !.exit_status = r.exit_status,
                                   !.GRAPH_RAG_AVAILABLE =
                                       init_graph_rag(r.GRAPH_RAG_AVAILABLE,
                                                      boot.components_ok)]
           /\ raised' = r.raised
    /\ UNCHANGED <<sessions_db, now, session, llm, PROMPT_TEMPLATE, SYSTEM_PROMPT, pc, req,
                   mon, call, ret, before, prev, ncalls, llm_input, cfg, threads,
                   sys_stdout, hub_py>>

\* Line 429: model_loaded = load_model()
BootLoadModel ==
    /\ boot.stage = "main"
    /\ LET r == load_model(boot.files, boot.llama_cpp, boot.init_ok)
       IN  /\ llm' = r.llm
           /\ boot' = [boot EXCEPT !.stage = "loaded", !.model_loaded = r.ret,
                                   !.model_path = r.model_path, !.probed = r.probed,
                                   !.init = r.init]
    /\ UNCHANGED <<sessions_db, now, session, PROMPT_TEMPLATE, SYSTEM_PROMPT, pc, req, mon,
                   call, ret, raised, before, prev, ncalls, llm_input, cfg, threads,
                   sys_stdout, hub_py>>

\* Lines 431 to 440.
BootMain ==
    /\ boot.stage = "loaded"
    /\ LET r == main(boot.model_loaded)
       IN  boot' = [boot EXCEPT !.stage = r.stage, !.exit_status = r.exit_status]
    /\ UNCHANGED <<sessions_db, now, session, llm, PROMPT_TEMPLATE, SYSTEM_PROMPT, pc, req,
                   mon, call, ret, raised, before, prev, ncalls, llm_input, cfg, threads,
                   sys_stdout, hub_py>>

\* GET /uat
GetUat ==
    /\ pc = "idle"
    /\ Serve("uat_page", <<>>, Request("uat_page", <<>>),
             uat_page(session, sessions_db, boot.GRAPH_RAG_AVAILABLE))

\* serve_forever: a request is handled.
BootRequest ==
    /\ boot.stage = "serving"
    /\ (PostAsk \/ GetMainPage \/ GetUat)

BootNext == BootImport \/ BootLoadModel \/ BootMain \/ BootRequest

BootSpec == BootInit /\ [][BootNext]_vars

\* The candidates that exist on disk, by their place in possible_paths.
Existing == {i \in 1..Len(possible_paths) : possible_paths[i] \in boot.files}

\* C15: while the server accepts requests the model is loaded, and no
\* POST /ask is answered 503; a process whose load_model failed exits with
\* status 1 in its next step, and a process that exited has a non-zero
\* status and has served no request.
C15_ServesOnlyLoaded ==
    /\ [](/\ boot.stage = "serving" => (llm = "Llama" /\ boot.model_loaded)
          /\ call.op = "ask_question" => ret # 503
          /\ boot.stage = "exited" =>
                 (boot.exit_status # PyInt(0) /\ boot.exit_status # PyNone /\ call = NoCall)
          /\ (boot.stage \in {"loaded", "serving", "exited"}
                 /\ (Existing = {} \/ ~boot.init_ok)) => boot.stage # "serving")
    /\ [][(boot.stage = "loaded" /\ ~boot.model_loaded) =>
              (boot'.stage = "exited" /\ boot'.exit_status = PyInt(1))]_vars

\* A process that found a model file, failed to initialize the model and
\* exited with status 1, no request served.
C15_Witness ==
    /\ boot.stage = "exited"
    /\ boot.graph_rag
    /\ boot.model_path # PyNone
    /\ boot.init
    /\ ~boot.model_loaded
    /\ llm = "None"
    /\ boot.exit_status = PyInt(1)
    /\ call = NoCall

\* C16: once load_model has returned with llama_cpp imported, the path it
\* chose is the first of possible_paths that exists, it probed the candidates
\* in order up to that one and no further, and with no candidate on disk it
\* probed all three, chose none, returned False and did not call Llama.
C16_FirstExistingWins ==
    (boot.stage \in {"loaded", "serving", "exited"} /\ boot.graph_rag /\ boot.llama_cpp) =>
        IF Existing = {}
        THEN /\ boot.model_path = PyNone
             /\ boot.probed = possible_paths
             /\ ~boot.init
             /\ ~boot.model_loaded
             /\ llm = "None"
        ELSE LET first == CHOOSE i \in Existing : \A j \in Existing : i <= j
             IN  /\ boot.model_path = PyStr(possible_paths[first])
                 /\ boot.probed = SubSeq(possible_paths, 1, first)
                 /\ boot.init

\* The second and the third candidate exist, the first does not: the server
\* runs on the second.
C16_Witness ==
    /\ boot.stage = "serving"
    /\ Existing = {2, 3}
    /\ boot.model_path = PyStr(possible_paths[2])
    /\ boot.probed = <<possible_paths[1], possible_paths[2]>>

(***************************************************************************)
(* The settings routes, src/app_chat.py lines 303 to 325, beside POST /ask *)
(* and the main page: PROMPT_TEMPLATE and SYSTEM_PROMPT change while the   *)
(* client chats.                                                           *)
(***************************************************************************)

\* update_system_prompt with the test of update_settings: an empty field
\* is ignored.
update_system_prompt_truthy(system_prompt, form_system_prompt) ==
    [SYSTEM_PROMPT |-> IF Truthy(form_system_prompt) THEN form_system_prompt.v
                       ELSE system_prompt,
     status |-> 302, redirect |-> "settings_page", raised |-> "none"]

\* POST /update_system_prompt: form_system_prompt is the form field, PyNone
\* when absent.
update_system_prompt(system_prompt, form_system_prompt) ==
    [SYSTEM_PROMPT |-> IF form_system_prompt # PyNone THEN form_system_prompt.v
                       ELSE system_prompt,
     status |-> 302, redirect |-> "settings_page", raised |-> "none"]

\* POST /update_settings: form_prompt_template is the form field, PyNone
\* when absent.
update_settings(template, form_prompt_template) ==
    [PROMPT_TEMPLATE |-> IF Truthy(form_prompt_template) THEN form_prompt_template.v
                         ELSE template,
     status |-> 302, redirect |-> "settings_page", raised |-> "none"]

\* GET /settings
settings_page(template, system_prompt) ==
    [status |-> 200, redirect |-> "idle", raised |-> "none",
     shown |-> <<template, system_prompt>>]

\* "Q: {prompt}"
TemplateQ == <<"Q", ":", " ", "{", "p", "r", "o", "m", "p", "t", "}">>

\* "{x}"
TemplateX == <<"{", "x", "}">>

\* "Hi"
TemplateHi == <<"H", "i">>

\* What an administrator may send as prompt_template.
FormTemplates == {PyNone, PyStr(<<>>), PyStr(TemplateQ), PyStr(TemplateX), PyStr(TemplateHi)}

\* What an administrator may send as system_prompt.
FormSystemPrompts == {PyNone, PyStr(<<>>), PyStr(<<"B", "e", " ", "b", "r", "i", "e", "f", ".">>)}

Hello == <<"H", "e", "l", "l", "o">>

\* What the client asks: "Hello", and a message made of braces.
SettingsPrompts == {PyStr(Hello), PyStr(<<"{", "}">>)}

SettingsInit ==
    /\ sessions_db = EmptyDict
    /\ now = Now0
    /\ session = [session_id |-> PyNone, chat_history |-> <<>>, timings |-> <<>>]
    /\ llm = "Llama"
    /\ PROMPT_TEMPLATE = DefaultTemplate
    /\ SYSTEM_PROMPT = DefaultSystemPrompt
    /\ pc = "idle"
    /\ req = NoReq
    /\ mon = NoMon
    /\ call = NoCall
    /\ ret = 0
    /\ raised = "none"
    /\ before = NoCall
    /\ prev = EmptyDict
    /\ ncalls = 0
    /\ boot = Started
    /\ llm_input = PyNone
    /\ cfg = [T |-> DefaultTemplate, S |-> DefaultSystemPrompt]
    /\ threads = <<>>
    /\ sys_stdout = "stdout"
    /\ hub_py = PyNone

\* A settings handler ran and answered with r, leaving the template T and
\* the system prompt S.
ServeSettings(op, r, T, S) ==
    /\ IF pc = "idle"
       THEN ncalls < MaxRequests /\ ncalls' = ncalls + 1 /\ req' = Request(op, <<>>)
       ELSE UNCHANGED <<ncalls, req>>
    /\ before' = call
    /\ call' = [op |-> op, key |-> <<>>, history |-> <<>>, timings |-> <<>>, days |-> 0,
                at |-> now]
    /\ prev' = sessions_db
    /\ PROMPT_TEMPLATE' = T
    /\ SYSTEM_PROMPT' = S
    /\ pc' = r.redirect
    /\ ret' = r.status
    /\ raised' = r.raised
    /\ llm_input' = PyNone
    /\ UNCHANGED <<sessions_db, now, session, llm, mon, boot, threads, sys_stdout, hub_py>>

\* POST /update_settings
PostUpdateSettings ==
    \E f \in FormTemplates :
        LET r == update_settings(PROMPT_TEMPLATE, f)
        IN  /\ pc = "idle"
            /\ ServeSettings("update_settings", r, r.PROMPT_TEMPLATE, SYSTEM_PROMPT)
            /\ cfg' = IF f # PyNone /\ f.v # <<>> THEN [cfg EXCEPT !.T = f.v] ELSE cfg

\* POST /update_system_prompt
PostUpdateSystemPrompt ==
    \E f \in FormSystemPrompts :
        LET r == update_system_prompt(SYSTEM_PROMPT, f)
        IN  /\ pc = "idle"
            /\ ServeSettings("update_system_prompt", r, PROMPT_TEMPLATE, r.SYSTEM_PROMPT)
            /\ cfg' = IF f # PyNone THEN [cfg EXCEPT !.S = f.v] ELSE cfg

\* GET /settings
GetSettings ==
    /\ pc \in {"idle", "settings_page"}
    /\ ServeSettings("settings_page", settings_page(PROMPT_TEMPLATE, SYSTEM_PROMPT),
                     PROMPT_TEMPLATE, SYSTEM_PROMPT)
    /\ UNCHANGED cfg

\* POST /ask with max_tokens left out.
SettingsAsk ==
    \E p \in SettingsPrompts, o \in ModelOutcomes : AskWith(p, PyNone, o)

SettingsNext ==
    \/ PostUpdateSettings
    \/ PostUpdateSystemPrompt
    \/ GetSettings
    \/ SettingsAsk
    \/ GetMainPage

SettingsSpec == SettingsInit /\ [][SettingsNext]_vars

\* The parts one after the other, a newline in front of each.
RECURSIVE NewlineBeforeEach(_)
NewlineBeforeEach(parts) ==
    IF parts = <<>> THEN <<>> ELSE <<"\n">> \o Head(parts) \o NewlineBeforeEach(Tail(parts))

\* The parts one after the other, a newline behind each.
RECURSIVE NewlineAfterEach(_)
NewlineAfterEach(parts) ==
    IF parts = <<>> THEN <<>> ELSE Head(parts) \o <<"\n">> \o NewlineAfterEach(Tail(parts))

EndsWith(s, tail) ==
    Len(tail) <= Len(s) /\ SubSeq(s, Len(s) - Len(tail) + 1, Len(s)) = tail

\* How often part occurs in s.
Occurrences(s, part) == Cardinality({i \in 1..Len(s) : OccursAt(s, part, i)})

\* The chat history as it was when the POST /ask that ran last began: that
\* handler appended one turn.
HistoryBefore ==
    LET history == DictGet(session, "chat_history", <<>>)
    IN  SubSeq(history, 1, Len(history) - 1)

\* C17: the prompt a POST /ask called the model with is the system prompt if
\* it is not empty, then every turn of the history in order, then the
\* template with the message in the place of {prompt}, joined by single
\* newlines and nothing else; with the default template and the message
\* "Hello" it ends with "Instruct: Hello\nOutput:".  A request that did not
\* reach the model sent it nothing.
C17_PromptAssembly ==
    call.op = "ask_question" =>
        IF req.called
        THEN /\ llm_input =
                    PyStr(Tail(NewlineBeforeEach(
                        (IF SYSTEM_PROMPT = <<>> THEN <<>> ELSE <<SYSTEM_PROMPT>>)
                            \o HistoryBefore
                            \o <<format(PROMPT_TEMPLATE, req.prompt).value>>)))
             /\ PROMPT_TEMPLATE \in {DefaultTemplate, TemplateQ} =>
                    format(PROMPT_TEMPLATE, req.prompt).value =
                        SubSeq(PROMPT_TEMPLATE, 1,
                               (CHOOSE i \in 1..Len(PROMPT_TEMPLATE) : PROMPT_TEMPLATE[i] = "{") - 1)
                            \o req.prompt
                            \o SubSeq(PROMPT_TEMPLATE,
                                      (CHOOSE i \in 1..Len(PROMPT_TEMPLATE) :
                                           PROMPT_TEMPLATE[i] = "}") + 1,
                                      Len(PROMPT_TEMPLATE))
             /\ (PROMPT_TEMPLATE = DefaultTemplate /\ req.prompt = Hello) =>
                    EndsWith(llm_input.v, INSTRUCT \o <<" ">> \o Hello \o OUTPUT)
        ELSE llm_input = PyNone

\* "Hello" asked with the default template and no system prompt on a chat of
\* two turns: the model gets the two turns and the instruction, three lines
\* and the line "Output:".
C17_Witness ==
    /\ call.op = "ask_question"
    /\ req.called
    /\ SYSTEM_PROMPT = <<>>
    /\ Len(HistoryBefore) = 2
    /\ HistoryBefore[1] # HistoryBefore[2]
    /\ llm_input = PyStr(HistoryBefore[1] \o <<"\n">> \o HistoryBefore[2] \o <<"\n">>
                             \o INSTRUCT \o <<" ">> \o Hello \o OUTPUT)

\* C18: the template and the system prompt in force are the ones the
\* settings routes took last (a non-empty template, any system prompt; an
\* absent field changes nothing), and a generation formats the message with
\* that template and puts that system prompt and a newline first, or no
\* system part when it is empty.
C18_SettingsTakeEffect ==
    /\ PROMPT_TEMPLATE = cfg.T
    /\ SYSTEM_PROMPT = cfg.S
    /\ (call.op = "ask_question" /\ req.called) =>
           llm_input.v =
               (IF cfg.S = <<>> THEN <<>> ELSE cfg.S \o <<"\n">>)
                   \o NewlineAfterEach(HistoryBefore)
                   \o format(cfg.T, req.prompt).value

\* A generation after /update_settings with "Q: {prompt}" and
\* /update_system_prompt with the empty string: the model gets "Q: Hello".
C18_Witness ==
    /\ call.op = "ask_question"
    /\ req.called
    /\ cfg.T = TemplateQ
    /\ cfg.S = <<>>
    /\ HistoryBefore = <<>>
    /\ llm_input = PyStr(<<"Q", ":", " ">> \o Hello)

\* C19: PROMPT_TEMPLATE always has exactly one substitution point: to format
\* it with a message raises nothing and the message occurs once in the
\* result.
C19_OneSubstitutionPoint ==
    \A p \in SettingsPrompts :
        /\ format(PROMPT_TEMPLATE, p.v).raised = "none"
        /\ Occurrences(format(PROMPT_TEMPLATE, p.v).value, p.v) = 1

(***************************************************************************)
(* The derived session key, under Spec.                                    *)
(***************************************************************************)

\* s.lower() on ASCII
Lower(s) ==
    [i \in 1..Len(s) |->
        IF s[i] \in Uppercase
        THEN Ascii[(CHOOSE j \in 34..59 : Ascii[j] = s[i]) + 32]
        ELSE s[i]]

\* The key C20 describes for a history saved at time t: the clock to the
\* minute, "_", and the lowercase filesystem-safe form of the first 30
\* characters of the first turn without its template markers.
C20_Key(history, t) ==
    strftime(t) \o <<"_">>
        \o Lower(secure_filename(
               Slice(StrStrip(StrReplace(StrReplace(history[1], INSTRUCT, <<>>), OUTPUT, <<>>)),
                     30)))

\* C20: when /save_session or /new_chat persists a chat that has no session
\* id and a non-empty history, the history is stored under the key
\* '<YYYYMMDD-HHMM>_<slug>' with the lowercase slug of the first turn, and
\* no other key appears on the shelf.
C20_DerivedKeyFormat ==
    [][((PostSaveSession \/ (GetNewChat /\ pc = "idle"))
          /\ ~Truthy(DictGet(session, "session_id", PyNone))
          /\ DictGet(session, "chat_history", <<>>) # <<>>) =>
           LET history == DictGet(session, "chat_history", <<>>)
               key == C20_Key(history, now)
           IN  /\ DOMAIN sessions_db' = DOMAIN sessions_db \cup {key}
               /\ key \in DOMAIN sessions_db'
               /\ sessions_db'[key].history = history]_vars


(***************************************************************************)
(* The session id of a context, once set.                                  *)
(***************************************************************************)

\* A step wrote the history H under the key K or nowhere: no key but K is
\* new, every other entry is what it was, and a non-empty H is now under K.
WritesOnlyUnder(K, H) ==
    /\ DOMAIN sessions_db' \subseteq DOMAIN sessions_db \cup {K}
    /\ \A k \in DOMAIN sessions_db \ {K} :
           k \in DOMAIN sessions_db' /\ sessions_db'[k] = sessions_db[k]
    /\ H # <<>> => (K \in DOMAIN sessions_db' /\ sessions_db'[K]["history"] = H)

\* C21: while the session holds a session id K, a /save_session and a
\* /new_chat write the chat history under K and under no other key, and
\* /ask, /, /save_session and the passing of time leave the id K in place.
C21_SavesUnderSessionId ==
    [][LET id == DictGet(session, "session_id", PyNone)
           H == DictGet(session, "chat_history", <<>>)
       IN  Truthy(id) =>
               /\ (call'.op \in {"save_current_session", "new_chat"}
                       /\ (PostSaveSession \/ GetNewChat)) =>
                      WritesOnlyUnder(id.v, H)
               /\ ((call'.op \in {"save_current_session", "ask_question", "main_page"}
                       /\ (PostSaveSession \/ PostAsk \/ GetMainPage)) \/ now' # now) =>
                      DictGet(session', "session_id", PyNone) = id]_vars

\* /session/a set the id, two /ask and a minute followed, and /save_session
\* wrote the two turns under "a", the only key of the shelf.
C21_Witness ==
    /\ call.op = "save_current_session"
    /\ DictGet(session, "session_id", PyNone) = PyStr(<<"a">>)
    /\ now > Now0
    /\ DOMAIN sessions_db = {<<"a">>}
    /\ Len(DictGet(session, "chat_history", <<>>)) = 2
    /\ sessions_db[<<"a">>]["history"] = DictGet(session, "chat_history", <<>>)

(***************************************************************************)
(* Two request threads in save_session at once.  The shelf is opened,      *)
(* written and closed in three steps (lines 68 to 73), and the threaded    *)
(* server (lines 423 to 437) lets the steps of two requests interleave.    *)
(* shelve takes no lock of its own: what an interleaving does depends on   *)
(* the dbm module the interpreter was built with, so the backend is drawn  *)
(* at the start.                                                           *)
(***************************************************************************)

\* The dbm modules shelve.open may pick.
DbmBackends == {"dbm.gnu", "dbm.ndbm", "dbm.dumb"}

\* Line 68, shelve.open(SESSION_DB): dbm.gnu takes the writer lock and raises
\* when another handle holds it; dbm.dumb reads the directory file into the
\* handle's index; dbm.ndbm opens the file as it is.
shelve_open(disk, backend, locked) ==
    IF backend = "dbm.gnu" /\ locked
    THEN [handle |-> PyNone, raised |-> "dbm.error"]
    ELSE [handle |-> [index |-> disk], raised |-> "none"]

\* Lines 69 to 73, db[session_id] = {...}: dbm.gnu and dbm.ndbm write to the
\* file; dbm.dumb sets the handle's index, and appends to the directory
\* file only a key the index did not hold.
shelf_setitem(disk, handle, backend, key, value) ==
    IF backend = "dbm.dumb"
    THEN [disk |-> IF key \in DOMAIN handle.index THEN disk ELSE DictSet(disk, key, value),
          handle |-> [index |-> DictSet(handle.index, key, value)]]
    ELSE [disk |-> DictSet(disk, key, value), handle |-> handle]

\* The end of the with block, db.close(): dbm.dumb rewrites the directory
\* file from the handle's index.
shelf_close(disk, handle, backend) ==
    IF backend = "dbm.dumb" THEN handle.index ELSE disk

\* The entry save_session writes at the time t.
session_entry(history, timings, t) ==
    save_session(EmptyDict, <<>>, history, timings, t).db[<<>>]

\* The keys the two requests save under, and the shelf they find.
RaceKeys == {<<"a">>, <<"B">>}

RaceStores ==
    {EmptyDict,
     DictSet(EmptyDict, <<"a">>, session_entry(<<TurnOk>>, <<>>, Now0 - 60)),
     DictSet(DictSet(EmptyDict, <<"a">>, session_entry(<<TurnOk>>, <<>>, Now0 - 60)),
             <<"a", "b">>, session_entry(HistB, <<>>, Now0 - 60))}

SaveThread(key, history) ==
    [op |-> "save_session", pc |-> "start", session_id |-> key, history |-> history,
     timings |-> <<>>, db |-> PyNone, raised |-> "none"]

SaveRaceInit ==
    /\ \E db \in RaceStores : sessions_db = db /\ prev = db
    /\ now = Now0
    /\ session = EmptyDict
    /\ llm = "Llama"
    /\ PROMPT_TEMPLATE = DefaultTemplate
    /\ SYSTEM_PROMPT = DefaultSystemPrompt
    /\ pc = "idle"
    /\ req = NoReq
    /\ mon = NoMon
    /\ call = NoCall
    /\ ret = <<>>
    /\ raised = "none"
    /\ before = NoCall
    /\ ncalls = 0
    /\ \E backend \in DbmBackends : boot = DictSet(Started, "dbm", backend)
    /\ llm_input = PyNone
    /\ cfg = [T |-> DefaultTemplate, S |-> DefaultSystemPrompt]
    /\ \E k1 \in RaceKeys, k2 \in RaceKeys :
           threads = <<SaveThread(k1, HistA), SaveThread(k2, HistB)>>
    /\ sys_stdout = "stdout"
    /\ hub_py = PyNone

\* Some thread holds the shelf open.
ShelfOpen == \E t \in DOMAIN threads : threads[t].pc \in {"opened", "written"}

SaveRaceStep(t, th, disk) ==
    /\ threads' = [threads EXCEPT ![t] = th]
    /\ sessions_db' = disk
    /\ UNCHANGED <<now, session, llm, PROMPT_TEMPLATE, SYSTEM_PROMPT, pc, req, mon, call, ret,
                   raised, before, prev, ncalls, boot, llm_input, cfg, sys_stdout, hub_py>>

\* Line 68: a thread opens the shelf.
SaveOpen ==
    \E t \in DOMAIN threads :
        /\ threads[t].pc = "start"
        /\ LET r == shelve_open(sessions_db, boot["dbm"], ShelfOpen)
           IN  SaveRaceStep(t, [threads[t] EXCEPT !.db = r.handle, !.raised = r.raised,
                                                  !.pc = IF r.raised = "none" THEN "opened"
                                                         ELSE "raised"],
                            sessions_db)

\* Lines 69 to 73: it stores the entry.
SaveSetItem ==
    \E t \in DOMAIN threads :
        /\ threads[t].pc = "opened"
        /\ LET th == threads[t]
               r == shelf_setitem(sessions_db, th.db, boot["dbm"], th.session_id,
                                  session_entry(th.history, th.timings, now))
           IN  SaveRaceStep(t, [th EXCEPT !.db = r.handle, !.pc = "written"], r.disk)

\* The with block ends: the shelf is closed and save_session returns.
SaveClose ==
    \E t \in DOMAIN threads :
        /\ threads[t].pc = "written"
        /\ SaveRaceStep(t, [threads[t] EXCEPT !.db = PyNone, !.pc = "returned"],
                        shelf_close(sessions_db, threads[t].db, boot["dbm"]))

SaveRaceNext == SaveOpen \/ SaveSetItem \/ SaveClose

SaveRaceSpec == SaveRaceInit /\ [][SaveRaceNext]_vars

\* Both calls are over.
SavesOver == \A t \in DOMAIN threads : threads[t].pc \in {"returned", "raised"}

\* C22: when two concurrent save_session calls are over, neither has raised;
\* if their keys differ, load_session gives each key the history saved under
\* it; if they are the same, the key holds one of the two histories; every
\* other entry of the shelf is what it was.
C22_ConcurrentSavesTakeEffect ==
    SavesOver =>
        LET k1 == threads[1].session_id
            k2 == threads[2].session_id
        IN  /\ \A t \in DOMAIN threads : threads[t].raised = "none"
            /\ k1 # k2 =>
                   /\ load_session(sessions_db, k1).ret[1] = threads[1].history
                   /\ load_session(sessions_db, k2).ret[1] = threads[2].history
            /\ k1 = k2 =>
                   load_session(sessions_db, k1).ret[1]
                       \in {threads[1].history, threads[2].history}
            /\ \A k \in DOMAIN prev \ {k1, k2} :
                   k \in DOMAIN sessions_db /\ sessions_db[k] = prev[k]

(***************************************************************************)
(* query_uat_index.py: the index is loaded once and queried.  The bodies   *)
(* of the two try blocks stand for the GraphRAG calls (lines 43 to 47 and  *)
(* 70 to 72); whether such a call returns or raises is an input.           *)
(***************************************************************************)

NOT_LOADED ==
    <<"E", "r", "r", "o", "r", ":", " ", "G", "r", "a", "p", "h", "R", "A", "G", " ",
      "i", "n", "d", "e", "x", " ", "i", "s", " ", "n", "o", "t", " ", "l", "o", "a",
      "d", "e", "d", ".">>

MOCK_RESPONSE ==
    <<"M", "o", "c", "k", " ", "r", "e", "s", "p", "o", "n", "s", "e", " ", "f", "o",
      "r", " ", "q", "u", "e", "r", "y", ":", " ", "'">>

QUERY_ERROR ==
    <<"E", "r", "r", "o", "r", " ", "p", "r", "o", "c", "e", "s", "s", "i", "n", "g",
      " ", "q", "u", "e", "r", "y", ":", " ">>

MOCK_QUERY_ENGINE == PyStr(<<"m", "o", "c", "k", "_", "q", "u", "e", "r", "y", "_", "e", "n",
                             "g", "i", "n", "e">>)

\* Lines 31 to 52.  index_exists is os.path.exists(INDEX_DIR); load is what
\* the try block does.
load_uat_index(index_exists, load) ==
    IF ~index_exists THEN PyNone
    ELSE IF load = "ok" THEN MOCK_QUERY_ENGINE
    ELSE PyNone

\* Lines 54 to 77.  outcome is what the try block does: it returns, or it
\* raises an exception with a message.
query_uat_document(query_engine, user_query, outcome) ==
    IF ~Truthy(query_engine) THEN NOT_LOADED
    ELSE IF ~outcome.raises THEN MOCK_RESPONSE \o user_query \o <<"'">>
    ELSE QUERY_ERROR \o outcome.message

\* The queries of the caller and the messages of the exceptions.
UserQueries == {<<"r", "e", "s", "e", "t">>, <<"l", "o", "g", "i", "n">>, <<>>}

Returns == [raises |-> FALSE, message |-> <<>>]

QueryOutcomes == {Returns, [raises |-> TRUE, message |-> <<"t", "i", "m", "e", "o", "u", "t">>]}

LoadOutcomes == {"ok", "raises"}

RetrievalInit ==
    /\ sessions_db = EmptyDict
    /\ now = Now0
    /\ session = EmptyDict
    /\ llm = "None"
    /\ PROMPT_TEMPLATE = DefaultTemplate
    /\ SYSTEM_PROMPT = DefaultSystemPrompt
    /\ pc = "idle"
    /\ req = NoReq
    /\ mon = NoMon
    /\ call = NoCall
    /\ ret = PyNone
    /\ raised = "none"
    /\ before = NoCall
    /\ prev = EmptyDict
    /\ ncalls = 0
    /\ \E index_exists \in BOOLEAN, load \in LoadOutcomes :
           boot = [stage |-> "start", index_exists |-> index_exists, load |-> load,
                   engine |-> PyNone]
    /\ llm_input = PyNone
    /\ cfg = [T |-> DefaultTemplate, S |-> DefaultSystemPrompt]
    /\ threads = <<>>
    /\ sys_stdout = "stdout"
    /\ hub_py = PyNone

\* Line 82: engine = load_uat_index()
RetrievalLoad ==
    /\ boot.stage = "start"
    /\ boot' = [boot EXCEPT !.stage = "loaded",
                            !.engine = load_uat_index(boot.index_exists, boot.load)]
    /\ UNCHANGED <<sessions_db, now, session, llm, PROMPT_TEMPLATE, SYSTEM_PROMPT, pc, req,
                   mon, call, ret, raised, before, prev, ncalls, llm_input, cfg, threads,
                   sys_stdout, hub_py>>

\* Line 89: result = query_uat_document(engine, sample_query)
RetrievalQuery ==
    \E q \in UserQueries, o \in QueryOutcomes :
        /\ boot.stage = "loaded"
        /\ ncalls < MaxCalls
        /\ ncalls' = ncalls + 1
        /\ before' = call
        /\ call' = [op |-> "query_uat_document", query |-> q,
                    outcome |-> IF Truthy(boot.engine) THEN o ELSE Returns]
        /\ ret' = PyStr(query_uat_document(boot.engine, q, o))
        /\ UNCHANGED <<sessions_db, now, session, llm, PROMPT_TEMPLATE, SYSTEM_PROMPT, pc,
                       req, mon, raised, prev, boot, llm_input, cfg, threads, sys_stdout,
                       hub_py>>

RetrievalNext == RetrievalLoad \/ RetrievalQuery

RetrievalSpec == RetrievalInit /\ [][RetrievalNext]_vars

\* What the caller gets for the query q when the index directory is missing:
\* the engine and the answer.
MissingIndexResult(q) ==
    <<load_uat_index(FALSE, "ok"), query_uat_document(load_uat_index(FALSE, "ok"), q, Returns)>>

RaceFormTemplates == {PyStr(TemplateQ), PyStr(TemplateX)}

\* The io.StringIO() each thread makes on line 190.
StringIOs == <<"StringIO1", "StringIO2">>

GenThread(prompt, history) ==
    [op |-> "generate_response", pc |-> "start", prompt |-> prompt, history |-> history,
     full_prompt_parts |-> <<>>, full_prompt |-> <<>>, old_stdout |-> "none",
     outcome |-> [ok |-> FALSE, text |-> <<>>, printed |-> <<>>], raised |-> "none",
     seen_system_prompts |-> {}, seen_templates |-> {}]

\* The thread is inside generate_response.
InFlight(th) == th.pc \notin {"start", "returned", "raised"}

GenRaceInit ==
    /\ sessions_db = EmptyDict
    /\ now = Now0
    /\ session = EmptyDict
    /\ llm = "Llama"
    /\ PROMPT_TEMPLATE = DefaultTemplate
    /\ SYSTEM_PROMPT \in {DefaultSystemPrompt, <<>>}
    /\ pc = "idle"
    /\ req = NoReq
    /\ mon = NoMon
    /\ call = NoCall
    /\ ret = 0
    /\ raised = "none"
    /\ before = NoCall
    /\ prev = EmptyDict
    /\ ncalls = 0
    /\ boot = Started
    /\ llm_input = PyNone
    /\ cfg = [T |-> DefaultTemplate, S |-> DefaultSystemPrompt]
    /\ threads = <<GenThread(<<"H", "i">>, <<>>), GenThread(Hello, <<TurnOk>>)>>
    /\ sys_stdout = "stdout"
    /\ hub_py = PyNone

\* A step of thread t leaves it as th and sys.stdout as out; the thread has
\* seen the globals as they are.
GenStep(t, th, out) ==
    /\ threads' = [threads EXCEPT ![t] =
                       [th EXCEPT !.seen_system_prompts = @ \cup {SYSTEM_PROMPT},
                                  !.seen_templates = @ \cup {PROMPT_TEMPLATE}]]
    /\ sys_stdout' = out
    /\ UNCHANGED <<sessions_db, now, session, llm, PROMPT_TEMPLATE, SYSTEM_PROMPT, pc, req, mon,
                   call, ret, raised, before, prev, ncalls, boot, llm_input, cfg, hub_py>>

\* Line 174: if SYSTEM_PROMPT:
GenTestSystemPrompt ==
    \E t \in DOMAIN threads :
        /\ threads[t].pc = "start"
        /\ GenStep(t, [threads[t] EXCEPT !.pc = IF SYSTEM_PROMPT # <<>> THEN "append_system"
                                                ELSE "format"],
                   sys_stdout)

\* Line 175: full_prompt_parts.append(SYSTEM_PROMPT)
GenAppendSystemPrompt ==
    \E t \in DOMAIN threads :
        /\ threads[t].pc = "append_system"
        /\ GenStep(t, [threads[t] EXCEPT !.full_prompt_parts = <<SYSTEM_PROMPT>>,
                                         !.pc = "format"],
                   sys_stdout)

\* Lines 178 to 184: the history, the formatted prompt, the join.
GenFormat ==
    \E t \in DOMAIN threads :
        /\ threads[t].pc = "format"
        /\ LET th == threads[t]
               formatted_prompt == format(PROMPT_TEMPLATE, th.prompt)
           IN  IF formatted_prompt.raised # "none"
               THEN GenStep(t, [th EXCEPT !.raised = formatted_prompt.raised,
                                          !.pc = "raised"],
                            sys_stdout)
               ELSE GenStep(t, [th EXCEPT !.full_prompt =
                                              StrJoin(<<"\n">>,
                                                      th.full_prompt_parts \o th.history
                                                          \o <<formatted_prompt.value>>),
                                          !.pc = "save_stdout"],
                            sys_stdout)

\* Line 189: old_stdout = sys.stdout
GenSaveStdout ==
    \E t \in DOMAIN threads :
        /\ threads[t].pc = "save_stdout"
        /\ GenStep(t, [threads[t] EXCEPT !.old_stdout = sys_stdout, !.pc = "set_stdout"],
                   sys_stdout)

\* Line 190: sys.stdout = captured_output = io.StringIO()
GenSetStdout ==
    \E t \in DOMAIN threads :
        /\ threads[t].pc = "set_stdout"
        /\ GenStep(t, [threads[t] EXCEPT !.pc = "call"], StringIOs[t])

\* Lines 192 to 200: the model returns or raises.
GenCallModel ==
    \E t \in DOMAIN threads, o \in ModelOutcomes :
        /\ threads[t].pc = "call"
        /\ GenStep(t, [threads[t] EXCEPT !.outcome = o, !.pc = "restore"], sys_stdout)

\* Line 203 after an exception, line 209 after a return, and the rest of
\* the function: sys.stdout = old_stdout, the answer joins the history.
GenRestoreStdout ==
    \E t \in DOMAIN threads :
        /\ threads[t].pc = "restore"
        /\ LET th == threads[t]
           IN  GenStep(t, [th EXCEPT !.history =
                                         Append(@, IF th.outcome.ok
                                                   THEN StrStrip(th.outcome.text)
                                                   ELSE ERROR_PREFIX \o th.outcome.text),
                                     !.pc = "returned"],
                       th.old_stdout)

\* Every generation in flight has seen the globals an update leaves.
GenSeen(S, T) ==
    threads' = [t \in DOMAIN threads |->
                    IF InFlight(threads[t])
                    THEN [threads[t] EXCEPT !.seen_system_prompts = @ \cup {S},
                                            !.seen_templates = @ \cup {T}]
                    ELSE threads[t]]

\* POST /update_system_prompt on a thread of its own: line 324 is one store.
GenUpdateSystemPrompt ==
    \E f \in FormSystemPrompts :
        LET r == update_system_prompt(SYSTEM_PROMPT, f)
        IN  /\ ncalls < MaxCalls
            /\ ncalls' = ncalls + 1
            /\ SYSTEM_PROMPT' = r.SYSTEM_PROMPT
            /\ GenSeen(r.SYSTEM_PROMPT, PROMPT_TEMPLATE)
            /\ UNCHANGED <<sessions_db, now, session, llm, PROMPT_TEMPLATE, pc, req, mon, call,
                           ret, raised, before, prev, boot, llm_input, cfg, sys_stdout,
                           hub_py>>

\* POST /update_settings on a thread of its own: line 315 is one store.
GenUpdateSettings ==
    \E f \in RaceFormTemplates :
        LET r == update_settings(PROMPT_TEMPLATE, f)
        IN  /\ ncalls < MaxCalls
            /\ ncalls' = ncalls + 1
            /\ PROMPT_TEMPLATE' = r.PROMPT_TEMPLATE
            /\ GenSeen(SYSTEM_PROMPT, r.PROMPT_TEMPLATE)
            /\ UNCHANGED <<sessions_db, now, session, llm, SYSTEM_PROMPT, pc, req, mon, call,
                           ret, raised, before, prev, boot, llm_input, cfg, sys_stdout,
                           hub_py>>

GenRaceNext ==
    \/ GenTestSystemPrompt
    \/ GenAppendSystemPrompt
    \/ GenFormat
    \/ GenSaveStdout
    \/ GenSetStdout
    \/ GenCallModel
    \/ GenRestoreStdout
    \/ GenUpdateSystemPrompt
    \/ GenUpdateSettings

GenRaceSpec == GenRaceInit /\ [][GenRaceNext]_vars

\* The prompt generate_response assembles for the history and the prompt
\* of th when it finds the system prompt S and the template T.
Assembled(th, S, T) ==
    generate_response([chat_history |-> th.history], th.prompt, 1024,
                      CHOOSE o \in ModelOutcomes : o.ok, T, S)

\* C24: the prompt a generation has assembled is the one generate_response
\* assembles from one value S that SYSTEM_PROMPT held and one value T that
\* PROMPT_TEMPLATE held during that generation: with the system part when S
\* is not empty, without it when S is empty.
C24_PromptFromOneValue ==
    \A t \in DOMAIN threads :
        threads[t].pc \in {"save_stdout", "set_stdout", "call", "restore"} =>
            \E S \in threads[t].seen_system_prompts, T \in threads[t].seen_templates :
                /\ Assembled(threads[t], S, T).raised = "none"
                /\ Assembled(threads[t], S, T).full_prompt = threads[t].full_prompt

\* C26: when no thread is inside generate_response, sys.stdout is the
\* stream it was at the start.
C26_StdoutRestored ==
    (\A t \in DOMAIN threads : ~InFlight(threads[t])) => sys_stdout = "stdout"

(***************************************************************************)
(* app_cdsw_phi2_only.py: the module builds its CDSWPhi2Model on line 207; *)
(* the constructor finds the GGUF file and probes the model types.  What   *)
(* from_pretrained and the test generation do for a type is an input.      *)
(***************************************************************************)

\* Lines 35 to 40.
model_paths ==
    <<"phi-2.Q4_K_M.gguf", "models/phi-2.Q4_K_M.gguf", "/home/cdsw/phi-2.Q4_K_M.gguf",
      "/tmp/phi-2.Q4_K_M.gguf">>

\* Line 53.
model_types == <<"phi", "gpt2", "llama">>

\* What a type may do: from_pretrained raises, the test generation raises,
\* or both return.
TypeOutcomes == {"load_raises", "test_raises", "ok"}

\* The loop without the return on line 73: every type is tried.
RECURSIVE try_model_types_without_return(_, _, _, _)
try_model_types_without_return(outcomes, i, model, tried) ==
    IF i > Len(model_types)
    THEN [model |-> model, model_loaded |-> \E t \in DOMAIN outcomes : outcomes[t] = "ok",
          tried |-> tried,
          raised |-> IF \E t \in DOMAIN outcomes : outcomes[t] = "ok" THEN "none"
                     ELSE "Exception"]
    ELSE LET model_type == model_types[i]
             loaded == IF outcomes[model_type] = "load_raises" THEN model
                       ELSE PyStr(model_type)
         IN  try_model_types_without_return(outcomes, i + 1, loaded,
                                            Append(tried, model_type))

\* Lines 55 to 78, from the i-th type on, self.model being model so far:
\* the instance is assigned before it is tested, the first type that passes
\* the test ends the loop, and the loop's end raises.
RECURSIVE try_model_types(_, _, _, _)
try_model_types(outcomes, i, model, tried) ==
    IF i > Len(model_types)
    THEN [model |-> model, model_loaded |-> FALSE, tried |-> tried, raised |-> "Exception"]
    ELSE LET model_type == model_types[i]
             loaded == IF outcomes[model_type] = "load_raises" THEN model
                       ELSE PyStr(model_type)
         IN  IF outcomes[model_type] = "ok"
             THEN [model |-> loaded, model_loaded |-> TRUE,
                   tried |-> Append(tried, model_type), raised |-> "none"]
             ELSE try_model_types(outcomes, i + 1, loaded, Append(tried, model_type))

\* Lines 22 to 86: __init__ and _load_phi2_model.  ctransformers says
\* whether the import on line 32 works, files are the paths that exist.
\* The model is PyNone or PyStr of the type the instance was loaded with.
CDSWPhi2Model(ctransformers, files, outcomes) ==
    IF ~ctransformers
    THEN [model |-> PyNone, model_loaded |-> FALSE, tried |-> <<>>, raised |-> "ImportError",
          model_path |-> PyNone]
    ELSE LET found == probe(model_paths, files, 1)
         IN  IF found.model_path = PyNone
             THEN [model |-> PyNone, model_loaded |-> FALSE, tried |-> <<>>,
                   raised |-> "FileNotFoundError", model_path |-> PyNone]
             ELSE LET r == try_model_types(outcomes, 1, PyNone, <<>>)
                  IN  [model |-> r.model, model_loaded |-> r.model_loaded,
                       tried |-> r.tried, raised |-> r.raised,
                       model_path |-> found.model_path]

\* Lines 393 to 399.
health(model_loaded) == [status |-> 200, model_loaded |-> model_loaded]

\* The places a GGUF file may be in.
Phi2DiskPaths == {model_paths[1], model_paths[3]}

Phi2Init ==
    /\ sessions_db = EmptyDict
    /\ now = Now0
    /\ session = EmptyDict
    /\ llm = "None"
    /\ PROMPT_TEMPLATE = DefaultTemplate
    /\ SYSTEM_PROMPT = DefaultSystemPrompt
    /\ pc = "idle"
    /\ req = NoReq
    /\ mon = NoMon
    /\ call = NoCall
    /\ ret = PyNone
    /\ raised = "none"
    /\ before = NoCall
    /\ prev = EmptyDict
    /\ ncalls = 0
    /\ \E ctransformers \in BOOLEAN, files \in SUBSET Phi2DiskPaths,
          outcomes \in [{model_types[i] : i \in DOMAIN model_types} -> TypeOutcomes] :
           boot = [stage |-> "import", ctransformers |-> ctransformers, files |-> files,
                   outcomes |-> outcomes, model |-> PyNone, model_loaded |-> FALSE,
                   tried |-> <<>>, model_path |-> PyNone, exit_status |-> PyNone]
    /\ llm_input = PyNone
    /\ cfg = [T |-> DefaultTemplate, S |-> DefaultSystemPrompt]
    /\ threads = <<>>
    /\ sys_stdout = "stdout"
    /\ hub_py = PyNone

\* Line 207: phi2_model = CDSWPhi2Model().  An exception of the constructor
\* ends the import, and with it the process.
Phi2Construct ==
    /\ boot.stage = "import"
    /\ LET r == CDSWPhi2Model(boot.ctransformers, boot.files, boot.outcomes)
       IN  /\ boot' = [boot EXCEPT !.stage = IF r.raised = "none" THEN "serving"
                                             ELSE "exited",
                                   !.model = r.model, !.model_loaded = r.model_loaded,
                                   !.tried = r.tried, !.model_path = r.model_path,
                                   !.exit_status = IF r.raised = "none" THEN PyNone
                                                   ELSE PyInt(1)]
           /\ raised' = r.raised
    /\ UNCHANGED <<sessions_db, now, session, llm, PROMPT_TEMPLATE, SYSTEM_PROMPT, pc, req,
                   mon, call, ret, before, prev, ncalls, llm_input, cfg, threads, sys_stdout,
                   hub_py>>

\* GET /health
Phi2Health ==
    /\ boot.stage = "serving"
    /\ ncalls < MaxCalls
    /\ ncalls' = ncalls + 1
    /\ ret' = health(boot.model_loaded)
    /\ UNCHANGED <<sessions_db, now, session, llm, PROMPT_TEMPLATE, SYSTEM_PROMPT, pc, req,
                   mon, call, raised, before, prev, boot, llm_input, cfg, threads,
                   sys_stdout, hub_py>>

Phi2Next == Phi2Construct \/ Phi2Health

Phi2Spec == Phi2Init /\ [][Phi2Next]_vars

\* The types that pass both the load and the test.
Passing == {i \in DOMAIN model_types : boot.outcomes[model_types[i]] = "ok"}

\* C25: once the constructor has run with ctransformers and a model file in
\* place, the types it tried are phi, gpt2, llama in that order up to and
\* including the first that loads and passes the test; then model_loaded is
\* true, no exception is raised and self.model is the instance of that type.
\* If no type passes, all three were tried, an exception is raised and
\* model_loaded is false.
C25_FirstPassingTypeWins ==
    (boot.stage # "import" /\ boot.ctransformers /\ boot.files # {}) =>
        IF Passing # {}
        THEN LET first == CHOOSE i \in Passing : \A j \in Passing : i <= j
             IN  /\ boot.tried = SubSeq(model_types, 1, first)
                 /\ boot.model_loaded
                 /\ boot.model = PyStr(model_types[first])
                 /\ raised = "none"
        ELSE /\ boot.tried = model_types
             /\ ~boot.model_loaded
             /\ raised = "Exception"

\* phi loaded and failed its test, gpt2 passed, llama would have passed too:
\* llama was not tried and the model is the gpt2 instance.
C25_Witness ==
    /\ boot.stage = "serving"
    /\ boot.outcomes["phi"] = "test_raises"
    /\ boot.outcomes["gpt2"] = "ok"
    /\ boot.outcomes["llama"] = "ok"
    /\ boot.tried = <<"phi", "gpt2">>
    /\ boot.model = PyStr("gpt2")
    /\ ret # PyNone
    /\ ret.model_loaded

(***************************************************************************)
(* The import of graph_rag fails.                                          *)
(***************************************************************************)

\* C27: when the import of graph_rag fails, the module level still runs to
\* its end without an exception and leaves GRAPH_RAG_AVAILABLE False; and
\* while GRAPH_RAG_AVAILABLE is False, GET /uat answers 503 and changes
\* neither the session nor the shelf.
C27_ImportFailureTolerated ==
    [][/\ (boot.stage = "import" /\ ~boot.graph_rag /\ BootImport) =>
              /\ boot'.stage = "main"
              /\ boot'.GRAPH_RAG_AVAILABLE = "False"
              /\ raised' = "none"
       /\ (boot.GRAPH_RAG_AVAILABLE = "False" /\ call'.op = "uat_page" /\ GetUat) =>
              /\ ret' = 503
              /\ session' = session
              /\ sessions_db' = sessions_db]_vars

(***************************************************************************)
(* The turns of a chat: /new_chat stores them, /ask and /save_session keep *)
(* them.                                                                   *)
(***************************************************************************)

\* C28: when /new_chat is requested with a non-empty chat history H, the
\* shelf holds H afterwards, under the session id of the session when it
\* has one and under the derived key when it has none.
C28_NewChatKeepsTurns ==
    [][LET H == DictGet(session, "chat_history", <<>>)
           id == DictGet(session, "session_id", PyNone)
           K == IF Truthy(id) THEN id.v ELSE derived_session_id(H, now)
       IN  (call'.op = "new_chat" /\ H # <<>> /\ GetNewChat) =>
               /\ K \in DOMAIN sessions_db'
               /\ sessions_db'[K]["history"] = H]_vars

\* /new_chat has cleared a session that had two turns and no id: the shelf,
\* empty before, holds the two turns.
C28_Witness ==
    /\ call.op = "new_chat"
    /\ prev = EmptyDict
    /\ "chat_history" \notin DOMAIN session
    /\ \E k \in DOMAIN sessions_db : Len(sessions_db[k]["history"]) = 2

\* s is a prefix of t.
IsPrefix(s, t) == Len(s) <= Len(t) /\ SubSeq(t, 1, Len(s)) = s

line_to_patch_1 ==
    <<"f", "r", "o", "m", " ", "h", "u", "g", "g", "i", "n", "g", "f", "a", "c", "e",
      "_", "h", "u", "b", ".", "u", "t", "i", "l", "s", " ", "i", "m", "p", "o", "r",
      "t", " ", "v", "a", "l", "i", "d", "a", "t", "e", "_", "r", "e", "p", "o", "_",
      "i", "d", ",", " ", "H", "F", "V", "a", "l", "i", "d", "a", "t", "i", "o", "n",
      "E", "r", "r", "o", "r">>

\* Line 54.
line_to_patch_2 ==
    <<"v", "a", "l", "i", "d", "a", "t", "e", "_", "r", "e", "p", "o", "_", "i", "d",
      "(", "p", "a", "t", "h", ")">>

\* Lines 52 and 55.
replacement_1 == <<"#", " ">> \o line_to_patch_1

replacement_2 == <<"#", " ">> \o line_to_patch_2

\* old in s
Contains(s, old) == \E i \in 1..Len(s) : OccursAt(s, old, i)

\* Lines 40 to 82: the text of the file afterwards and what patch_file
\* returns.  writable says whether open(file_path, 'w') works; when it
\* raises, the except clause returns False.
patch_file(content, writable) ==
    IF Contains(content, replacement_1) /\ Contains(content, replacement_2)
    THEN [content |-> content, ret |-> TRUE]
    ELSE LET patched_content ==
                 StrReplace(StrReplace(content, line_to_patch_1, replacement_1),
                            line_to_patch_2, replacement_2)
         IN  IF content = patched_content THEN [content |-> content, ret |-> FALSE]
             ELSE IF ~writable THEN [content |-> content, ret |-> FALSE]
             ELSE [content |-> patched_content, ret |-> TRUE]

\* Lines 84 to 94: hub is the text of hub.py, PyNone when find_hub_py finds
\* no such file.
patcher_main(hub, writable) ==
    IF hub = PyNone THEN [hub_py |-> hub, ret |-> PyNone]
    ELSE LET r == patch_file(hub.v, writable)
         IN  [hub_py |-> PyStr(r.content), ret |-> [tag |-> "bool", v |-> r.ret]]

\* The lines hub.py may be made of: the two lines to patch, the two as
\* patched, and a line the patch does not concern.
HubLines ==
    {line_to_patch_1, line_to_patch_2, replacement_1, replacement_2,
     <<"i", "m", "p", "o", "r", "t", " ", "o", "s">>}

\* The file of the given lines.
RECURSIVE FileOf(_)
FileOf(lines) == IF lines = <<>> THEN <<>> ELSE Head(lines) \o <<"\n">> \o FileOf(Tail(lines))

\* The most lines of a hub.py at the start.
MaxLines == 2

HubFiles == {FileOf(lines) : lines \in UNION {[1..n -> HubLines] : n \in 0..MaxLines}}

PatchInit ==
    /\ sessions_db = EmptyDict
    /\ now = Now0
    /\ session = EmptyDict
    /\ llm = "None"
    /\ PROMPT_TEMPLATE = DefaultTemplate
    /\ SYSTEM_PROMPT = DefaultSystemPrompt
    /\ pc = "idle"
    /\ req = NoReq
    /\ mon = NoMon
    /\ call = NoCall
    /\ ret = PyNone
    /\ raised = "none"
    /\ before = NoCall
    /\ prev = EmptyDict
    /\ ncalls = 0
    /\ \E writable \in BOOLEAN : boot = [stage |-> "start", writable |-> writable]
    /\ llm_input = PyNone
    /\ cfg = [T |-> DefaultTemplate, S |-> DefaultSystemPrompt]
    /\ threads = <<>>
    /\ sys_stdout = "stdout"
    /\ hub_py \in {PyNone} \cup {PyStr(f) : f \in HubFiles}

\* python patch_ctransformers.py
RunPatcher ==
    /\ ncalls < MaxCalls
    /\ ncalls' = ncalls + 1
    /\ LET r == patcher_main(hub_py, boot.writable)
       IN  /\ hub_py' = r.hub_py
           /\ ret' = r.ret
    /\ boot' = [boot EXCEPT !.stage = "patched"]
    /\ UNCHANGED <<sessions_db, now, session, llm, PROMPT_TEMPLATE, SYSTEM_PROMPT, pc, req,
                   mon, call, raised, before, prev, llm_input, cfg, threads, sys_stdout>>

PatchNext == RunPatcher

PatchSpec == PatchInit /\ [][PatchNext]_vars

\* C30: a run of the patcher that follows another run leaves hub.py as it
\* found it, whatever the file held at the start.
C30_PatchIdempotent ==
    [][(ncalls >= 1 /\ RunPatcher) => hub_py' = hub_py]_vars

====
